---------------------------- MODULE Spec2Model ----------------------------
(* State-machine model of the request-execution and streaming core of the *)
(* uno-anthropic client: RetryPolicy (retry.rs), the transport executor   *)
(* (client.rs), the middleware chain (middleware.rs), the OAuth token     *)
(* manager and bearer middleware (oauth.rs), the SSE decoder              *)
(* (streaming/sse.rs) and the typed event stream (messages/streaming.rs). *)
(* Each subsystem has its own specification over its own variables; the   *)
(* variables of the other subsystems stay at their idle values.           *)
EXTENDS Integers, Sequences, FiniteSets, TLC

\* Option<T>: None is the empty tuple, Some(x) the one-element tuple
None == <<>>

Some(x) == <<x>>

\* a value not produced yet (call still running)
NoValue == [tag |-> "None"]

Min(a, b) == IF a <= b THEN a ELSE b

Max(a, b) == IF a >= b THEN a ELSE b

RECURSIVE Pow2(_)
Pow2(k) == IF k = 0 THEN 1 ELSE 2 * Pow2(k - 1)

(***************************************************************************)
(* Bounds of the model.                                                    *)
(***************************************************************************)
\* largest max_retries a call is configured with in the executor model
MaxRetriesBound == 3
\* largest attempt number handed to delay_for_attempt in the delay model
MaxDelayAttempt == 66
\* every u64 value >= Huge is represented by Huge (all configured
\* durations are far below it, so min(x, max_ms) is exact)
Huge == 1073741824

VARIABLES
    \* ---- RetryPolicy::delay_for_attempt (retry.rs) ----
    retry_policy,   \* [max_retries, initial_delay, max_delay] (durations in ms)
    build,          \* "debug" | "release": overflow checks on or off
    dPc,            \* "idle" | "call" | "returned" | "panicked"
    dAttempt,       \* argument attempt
    dRetryAfter,    \* argument retry_after: Option<Duration>, in ms
    dResult,        \* [panic, ms]: the returned Duration in ms, or a panic
    \* ---- Client::execute_raw / execute_streaming (client.rs) ----
    pc,             \* "idle" | "call" | "loop" | "in_flight" | "sleeping" | "done" | "unreachable"
    mode,           \* "raw" | "streaming"
    callEnv,        \* [ser_ok, build_ok, extra_headers]: can the body be serialized / the
                    \* request be built; the caller's extra_headers: Option<&HeaderMap>
    attemptReq,     \* `req` of the current attempt, as handed to the chain
    executed,       \* `r` of the last attempt, as the chain handed it to http.execute
    oauthTotals,    \* [handler, invalidations]: what the finished attempts of a call through
                    \* the OAuth middleware made of handler calls and invalidations
    attempt,        \* loop variable of `for attempt in 0..=max_retries`
    started,        \* number of attempts started (requests handed to the chain)
    sleeps,         \* number of backoff sleeps started
    result,         \* outcome of the last attempt as seen by `match result`
    delay,          \* Duration of the current / last backoff sleep
    retried,        \* TRUE iff the last classified attempt ended in `continue`
    returned,       \* value returned by the call, None while running
    \* ---- execute_middleware_chain / build_chain (middleware.rs) ----
    middlewares,    \* the registered middlewares, in registration order
    chainPc,        \* "idle" | "call" | "run" | "in_handler" | "unwind" | "done"
    next,           \* the Next about to be run
    request,        \* the request travelling inwards (headers added so far)
    stack,          \* middlewares whose handle() awaits next.run(), outermost first
    events,         \* observable order of pre / terminal / post events
    handlerSaw,     \* requests the terminal handler was invoked with
    response,       \* result travelling outwards
    \* ---- parse_sse_stream (streaming/sse.rs) ----
    ssePc,          \* "idle" | "reading" | "ended"
    lines,          \* what the line stream will still deliver: Ok(line) / Err items
    current,        \* the RawSseEvent being accumulated
    items,          \* the items the stream has yielded so far
    consumed,       \* history: the items read from `lines` so far
    block,          \* history: the lines read since the last dispatch
    blocks,         \* history: for each yielded Ok item, the lines it was built from
    eofItems,       \* history: number of items yielded after the source ended
    \* ---- OAuthTokenManager / OAuthMiddleware (oauth.rs) ----
    state,          \* OAuthTokenState behind the RwLock: [access_token, refresh_token, expires_at]
    lock,           \* the RwLock: [writer: task or 0, readers: set of tasks]
    now,            \* what now_ms() returns
    refresh_calls,  \* number of refresh requests sent to the refresh endpoint
    task,           \* per task: the call it runs and its local variables
    on_refresh,     \* Option<OnRefreshFn>: "None", or what the registered callback does
    issued,         \* history: [token, expires_at] of the last refresh response stored
    \* ---- MessageStream::accumulate_with (messages/streaming.rs) ----
    accPc,              \* "idle" | "reading" | "returned"
    source,             \* the stream: [script: items it will still yield] or [budget: n]
    message,            \* Option<Message>
    content_blocks,     \* Vec<ContentBlock>
    partial_json_bufs,  \* HashMap<usize, String>
    callbacks,          \* number of calls of the callback so far
    accResult,          \* what accumulate_with returned
    accHist             \* history: which events were consumed so far

delayVars == <<dPc, dAttempt, dRetryAfter, dResult>>
execVars == <<pc, mode, callEnv, attemptReq, executed, oauthTotals, attempt, started, sleeps, result, delay, retried, returned>>
chainVars == <<middlewares, chainPc, next, request, stack, events, handlerSaw, response>>
sseVars == <<ssePc, lines, current, items, consumed, block, blocks, eofItems>>
oauthVars == <<state, lock, now, refresh_calls, task, on_refresh, issued>>
accVars == <<accPc, source, message, content_blocks, partial_json_bufs, callbacks,
             accResult, accHist>>
vars == <<retry_policy, build, delayVars, execVars, chainVars, sseVars, oauthVars, accVars>>

\* what the actions of one subsystem leave alone
NotExec == <<delayVars, chainVars, sseVars, oauthVars, accVars>>
NotDelay == <<execVars, chainVars, sseVars, oauthVars, accVars>>
NotChain == <<retry_policy, build, delayVars, execVars, sseVars, oauthVars, accVars>>
NotSse == <<retry_policy, build, delayVars, execVars, chainVars, oauthVars, accVars>>
NotOAuth == <<retry_policy, build, delayVars, execVars, chainVars, sseVars, accVars>>
NotAcc == <<retry_policy, build, delayVars, execVars, chainVars, sseVars, oauthVars>>

\* RawSseEvent::default()
DefaultRawSseEvent == [event |-> None, data |-> None, id |-> None, retry |-> None]

\* Next::new(handler): the terminal handler itself
HandlerNext == [kind |-> "handler"]

(***************************************************************************)
(* Idle values: the state of a subsystem that takes no part in a           *)
(* specification.                                                          *)
(***************************************************************************)
IdlePolicy ==
    /\ retry_policy = [max_retries |-> 2, initial_delay |-> 500, max_delay |-> 8000]
    /\ build = "release"

IdleDelay ==
    /\ dPc = "idle" /\ dAttempt = 0 /\ dRetryAfter = None
    /\ dResult = [panic |-> FALSE, ms |-> 0]

IdleSse ==
    /\ ssePc = "idle" /\ lines = <<>> /\ current = DefaultRawSseEvent /\ items = <<>>
    /\ consumed = <<>> /\ block = <<>> /\ blocks = <<>> /\ eofItems = 0

IdleOAuth ==
    /\ state = [access_token |-> 0, refresh_token |-> 0, expires_at |-> 0]
    /\ lock = [writer |-> 0, readers |-> {}]
    /\ now = 0 /\ refresh_calls = 0 /\ task = <<>>
    /\ on_refresh = "None" /\ issued = [token |-> 0, expires_at |-> 0]

IdleAcc ==
    /\ accPc = "idle" /\ source = [free |-> FALSE, budget |-> 0, script |-> <<>>]
    /\ message = None /\ content_blocks = <<>> /\ partial_json_bufs = <<>>
    /\ callbacks = 0 /\ accResult = NoValue
    /\ accHist = NoValue

IdleExec ==
    /\ pc = "idle" /\ mode = "raw"
    /\ callEnv = [ser_ok |-> TRUE, build_ok |-> TRUE, extra_headers |-> None]
    /\ attemptReq = NoValue /\ executed = NoValue
    /\ oauthTotals = [handler |-> 0, invalidations |-> 0]
    /\ attempt = 0 /\ started = 0 /\ sleeps = 0 /\ result = NoValue
    /\ delay = 0 /\ retried = FALSE /\ returned = NoValue

IdleChain ==
    /\ middlewares = <<>> /\ chainPc = "idle" /\ next = HandlerNext /\ request = <<>>
    /\ stack = <<>> /\ events = <<>> /\ handlerSaw = <<>> /\ response = NoValue

(***************************************************************************)
(* retry.rs: RetryPolicy::delay_for_attempt                                *)
(***************************************************************************)
SECS_60 == 60000

\* y * 2^k, counted up to Huge
RECURSIVE ShiftClamp(_, _)
ShiftClamp(y, k) ==
    IF k = 0 \/ y >= Huge THEN Min(y, Huge) ELSE ShiftClamp(2 * y, k - 1)

\* self.initial_delay.as_millis() as u64 * 2u64.saturating_pow(attempt), for x < 2^30.
\* 2u64.saturating_pow(a) is 2^a for a < 64 and u64::MAX from a = 64 on.
\* overflow: the mathematical product does not fit in 64 bits;
\* wrapped:  the product modulo 2^64 (what a build without overflow checks computes).
MulSatPow2(x, a) ==
    IF a >= 64
    THEN [overflow |-> x >= 2,
          wrapped  |-> IF x = 0 THEN 0 ELSE Huge]      \* 2^64 - x
    ELSE LET room == 64 - a
             low  == IF room >= 31 THEN x ELSE x % Pow2(room)
         IN  [overflow |-> room < 31 /\ x >= Pow2(room),
              wrapped  |-> IF low = 0 THEN 0 ELSE ShiftClamp(low, a)]

\* the values rand::rng().random_range(0..=(capped_ms / 4)) can return
JitterRange(capped_ms) == IF capped_ms > 0 THEN 0 .. (capped_ms \div 4) ELSE {0}

\* delay_for_attempt with the random draw made explicit; panic when the
\* multiplication overflows in a build with overflow checks
delay_for_attempt(policy, bld, att, retry_after, jitter) ==
    IF retry_after # None /\ retry_after[1] < SECS_60
    THEN [panic |-> FALSE, ms |-> retry_after[1]]
    ELSE LET prod      == MulSatPow2(policy.initial_delay, att)
             max_ms    == policy.max_delay
             capped_ms == Min(prod.wrapped, max_ms)
         IN  IF prod.overflow /\ bld = "debug"
             THEN [panic |-> TRUE, ms |-> 0]
             ELSE [panic |-> FALSE, ms |-> capped_ms - jitter]

\* capped_ms as the code computes it (the range the jitter is drawn from)
CappedMs(policy, att) == Min(MulSatPow2(policy.initial_delay, att).wrapped, policy.max_delay)

(***************************************************************************)
(* error.rs: retry classification                                          *)
(***************************************************************************)
\* is_retryable_status
is_retryable_status(status) == status \in {408, 409, 429} \/ status >= 500

\* reqwest::Error as Error::is_retryable sees it
HttpError(kind) ==
    [kind |-> "Http", what |-> kind,
     is_timeout |-> kind = "timeout", status |-> None, is_connect |-> kind = "connect"]

ApiError(status) == [kind |-> "Api", status |-> status]

OtherError(kind) == [kind |-> kind]

\* Error::is_retryable
is_retryable_any(e) == TRUE

is_retryable(e) ==
    CASE e.kind = "Api"     -> is_retryable_status(e.status)
      [] e.kind = "Http"    -> IF e.is_timeout THEN TRUE
                               ELSE IF e.status # None THEN is_retryable_status(e.status[1])
                               ELSE e.is_connect
      [] e.kind = "Timeout" -> TRUE
      [] OTHER              -> FALSE

(***************************************************************************)
(* retry.rs: check_should_retry_header                                     *)
(***************************************************************************)
UpperCase == <<"A","B","C","D","E","F","G","H","I","J","K","L","M",
               "N","O","P","Q","R","S","T","U","V","W","X","Y","Z">>

LowerCase == <<"a","b","c","d","e","f","g","h","i","j","k","l","m",
               "n","o","p","q","r","s","t","u","v","w","x","y","z">>

Digits == <<"0","1","2","3","4","5","6","7","8","9">>

Range(f) == {f[i] : i \in DOMAIN f}

\* bytes HeaderValue::to_str accepts (visible ASCII), as far as the model uses them
VisibleAscii == Range(UpperCase) \cup Range(LowerCase) \cup Range(Digits) \cup {" ", "-", "_", ",", ":"}

to_ascii_lowercase(c) ==
    IF c \in Range(UpperCase)
    THEN LowerCase[CHOOSE i \in DOMAIN UpperCase : UpperCase[i] = c]
    ELSE c

eq_ignore_ascii_case(s, t) ==
    /\ Len(s) = Len(t)
    /\ \A i \in DOMAIN s : to_ascii_lowercase(s[i]) = to_ascii_lowercase(t[i])

\* header values are sequences of one-byte strings; hdr is headers.get("x-should-retry")
check_should_retry_header(hdr) ==
    IF hdr = None THEN None
    ELSE IF \E i \in DOMAIN hdr[1] : hdr[1][i] \notin VisibleAscii THEN None   \* to_str() fails
    ELSE Some(eq_ignore_ascii_case(hdr[1], <<"t","r","u","e">>))

(***************************************************************************)
(* client.rs: Client::execute_raw / Client::execute_streaming              *)
(***************************************************************************)
\* x-should-retry values a response may carry
ShouldRetryValues ==
    {None, Some(<<"t","r","u","e">>), Some(<<"T","r","u","e">>),
     Some(<<"f","a","l","s","e">>), Some(<<"1">>), Some(<<"0x80">>)}

Statuses == {200, 302, 400, 401, 408, 409, 429, 500, 503}

\* the number a response's retry-after header carries, in ms: absent, 3, -1
RetryAfterValues == {None, Some(3), Some(0 - 1)}

\* parse_retry_after: Duration::from_secs_f64(secs) panics when secs is
\* negative (or not finite, or too large)
parse_retry_after(hdr) ==
    IF hdr # None /\ hdr[1] < 0
    THEN [panic |-> TRUE, value |-> None]
    ELSE [panic |-> FALSE, value |-> hdr]

\* response bodies, as byte sequences with their JSON reading: an object of
\* the shape {"error": {"type": .., "message": ..}}, a text that is no such
\* object, and bytes that are not UTF-8 ("#FF" is the byte 0xFF)
ApiShapedBody ==
    [bytes |-> <<"{", "e", "}">>,
     json |-> Some([error_type |-> "overloaded_error", message |-> <<"b", "u", "s", "y">>])]

TextBody == [bytes |-> <<"o", "o", "p", "s">>, json |-> None]

BinaryBody == [bytes |-> <<"o", "#FF">>, json |-> None]

Bodies == {ApiShapedBody, TextBody, BinaryBody}

\* String::from_utf8_lossy(&body_bytes).to_string(): an invalid byte becomes U+FFFD
from_utf8_lossy(bytes) ==
    [i \in DOMAIN bytes |-> IF bytes[i] = "#FF" THEN "U+FFFD" ELSE bytes[i]]

\* serde_json::from_slice::<ApiErrorResponse>(&body_bytes).map(|r| r.error)
\*     .unwrap_or_else(|_| ApiErrorBody { "unknown_error", from_utf8_lossy(..) })
error_body(body) ==
    IF body.json # None THEN body.json[1]
    ELSE [error_type |-> "unknown_error", message |-> from_utf8_lossy(body.bytes)]

\* what one pass through the middleware chain / terminal handler hands back
\* to `match result`; body_ok says whether response.bytes() will succeed
Outcomes ==
    {o \in [tag : {"Ok"}, status : Statuses, x_should_retry : ShouldRetryValues,
            retry_after : RetryAfterValues, body_ok : BOOLEAN, body : Bodies] :
        /\ (~o.body_ok \/ o.status < 400) => o.body = ApiShapedBody
        \* the headers are read from a response with status >= 400 only
        /\ o.status < 400 => (o.x_should_retry = None /\ o.retry_after = None)
        /\ o.body # ApiShapedBody => (o.x_should_retry = None /\ o.retry_after = None)}
    \cup
    [tag : {"Err"},
     error : {HttpError("timeout"), HttpError("connect"), HttpError("request"),
              OtherError("Timeout"), OtherError("OAuth"), OtherError("StreamError"),
              OtherError("Serialization"), ApiError(503), ApiError(400)}]

\* `for attempt in 0..=max_retries`
LoopRange(max_retries) == 0 .. max_retries

\* `attempt < max_retries` of `retryable && attempt < max_retries`
RetriesLeftOffByOne(att, max_retries) == att <= max_retries

RetriesLeft(att, max_retries) == att < max_retries

\* should_retry.unwrap_or_else(|| is_retryable_status(status))
Retryable(o) ==
    LET should_retry == check_should_retry_header(o.x_should_retry)
    IN  IF should_retry # None THEN should_retry[1] ELSE is_retryable_status(o.status)

\* inner.config.build_headers(): the default headers of the client
DefaultHeaders == [h \in {"x-api-key", "anthropic-beta"} |-> "default"]

\* the caller's extra_headers: absent, or one overriding a default header
ExtraHeaderValues == {None, Some([h \in {"anthropic-beta"} |-> "extra"])}

\* RequestBuilder::headers: a header of the argument replaces one of that name
replace_headers(dst, src) ==
    [h \in DOMAIN dst \cup DOMAIN src |-> IF h \in DOMAIN src THEN src[h] ELSE dst[h]]

\* a new builder on the method and url, headers.clone(), extra.clone(), the
\* body (with "stream": true inserted by execute_streaming before the loop)
new_request(m, env) ==
    [method |-> "POST", url |-> "base/v1/messages",
     headers |-> IF env.extra_headers = None THEN DefaultHeaders
                 ELSE replace_headers(DefaultHeaders, env.extra_headers[1]),
     body |-> [stream |-> m = "streaming"]]

\* a loop body that keeps the request of the attempt before
request_kept(prev, m, env) == IF prev # NoValue THEN prev ELSE new_request(m, env)

\* the loop body up to request.build(): prev, the request of the attempt
\* before, was moved into the chain and is gone
build_request(prev, m, env) == new_request(m, env)

\* what a chain with a rewriting middleware hands to the terminal handler
\* for the request r it was given: the url, a header and the body changed
ChainRewrites(r) ==
    [r EXCEPT !.url = "rewritten",
              !.headers = replace_headers(@, [h \in {"authorization"} |-> "Bearer"]),
              !.body = [rewritten |-> TRUE]]

\* entry of the call: url, headers; execute_streaming serializes the body first
ExecEnter ==
    /\ pc = "call"
    /\ IF mode = "streaming" /\ ~callEnv.ser_ok
       THEN /\ pc' = "done"
            /\ returned' = [tag |-> "Err", error |-> OtherError("Serialization")]
       ELSE /\ pc' = "loop"
            /\ UNCHANGED returned
    /\ UNCHANGED <<mode, callEnv, attemptReq, executed, oauthTotals, attempt, started,
                   sleeps, result, delay, retried>>
    /\ UNCHANGED <<retry_policy, build, NotExec>>

\* top of the loop body: build the request and hand it to the chain
ExecStartAttempt ==
    /\ pc = "loop"
    /\ IF ~callEnv.build_ok \/ (mode = "raw" /\ ~callEnv.ser_ok)
       THEN /\ pc' = "done"                      \* request.build().map_err(Error::Http)?
            /\ returned' = [tag |-> "Err", error |-> HttpError("builder")]
            /\ UNCHANGED <<started, attemptReq>>
       ELSE /\ pc' = "in_flight"
            /\ started' = started + 1
            /\ attemptReq' = build_request(executed, mode, callEnv)
            /\ UNCHANGED returned
    /\ UNCHANGED <<mode, callEnv, executed, oauthTotals, attempt, sleeps, result, delay,
                   retried>>
    /\ UNCHANGED <<retry_policy, build, NotExec>>

\* `continue` after tokio::time::sleep(delay): the sleep is started here
ExecRetry(retry_after) ==
    \E jitter \in JitterRange(CappedMs(retry_policy, attempt)) :
        LET d == delay_for_attempt(retry_policy, build, attempt, retry_after, jitter)
        IN  IF d.panic
            THEN /\ pc' = "done"
                 /\ returned' = [tag |-> "Panic"]
                 /\ UNCHANGED <<sleeps, delay, retried>>
            ELSE /\ pc' = "sleeping"
                 /\ delay' = d.ms
                 /\ sleeps' = sleeps + 1
                 /\ retried' = TRUE
                 /\ UNCHANGED returned

ExecReturn(value) ==
    /\ pc' = "done"
    /\ returned' = value
    /\ retried' = FALSE
    /\ UNCHANGED <<sleeps, delay>>

\* `match result { Ok(response) => ..., Err(e) => ... }` for the result o
ExecClassify(o) ==
    /\ result' = o
    /\ IF o.tag = "Ok"
       THEN IF o.status >= 400
            THEN IF parse_retry_after(o.retry_after).panic
                 THEN \* parse_retry_after(response.headers()) panics
                      /\ pc' = "done"
                      /\ returned' = [tag |-> "Panic"]
                      /\ UNCHANGED <<sleeps, delay, retried>>
                 ELSE IF ~o.body_ok
                 THEN \* response.bytes().await.map_err(Error::Http)?
                      ExecReturn([tag |-> "Err", error |-> HttpError("body")])
                 ELSE IF Retryable(o) /\ RetriesLeft(attempt, retry_policy.max_retries)
                 THEN ExecRetry(parse_retry_after(o.retry_after).value)
                 ELSE ExecReturn([tag |-> "Err", error |-> ApiError(o.status),
                                  body |-> error_body(o.body)])
            ELSE IF mode = "raw" /\ ~o.body_ok
                 THEN ExecReturn([tag |-> "Err", error |-> HttpError("body")])
                 ELSE ExecReturn([tag |-> "Ok", status |-> o.status])
       ELSE IF is_retryable(o.error) /\ RetriesLeft(attempt, retry_policy.max_retries)
            THEN ExecRetry(None)
            ELSE ExecReturn([tag |-> "Err", error |-> o.error])

ExecChainReturns ==
    /\ pc = "in_flight"
    /\ \E o \in Outcomes : ExecClassify(o)
    /\ executed' = ChainRewrites(attemptReq)
    /\ UNCHANGED <<mode, callEnv, attemptReq, oauthTotals, attempt, started>>
    /\ UNCHANGED <<retry_policy, build, NotExec>>

\* the sleep is over: next iteration of the for loop
ExecSleepDone ==
    /\ pc = "sleeping"
    /\ attempt' = attempt + 1
    /\ pc' = IF attempt + 1 \in LoopRange(retry_policy.max_retries)
             THEN "loop" ELSE "unreachable"       \* unreachable!()
    /\ UNCHANGED <<mode, callEnv, attemptReq, executed, oauthTotals, started, sleeps,
                   result, delay, retried, returned>>
    /\ UNCHANGED <<retry_policy, build, NotExec>>

(***************************************************************************)
(* middleware.rs: execute_middleware_chain / build_chain                   *)
(***************************************************************************)
\* largest number of registered middlewares
MaxChain == 3

MiddlewareNames == {"A", "B", "C", "D"}

\* build_chain taking the last middleware as the outermost one
RECURSIVE build_chain_last_first(_)
build_chain_last_first(mws) ==
    IF mws = <<>> THEN HandlerNext
    ELSE [kind |-> "mw", first |-> mws[Len(mws)],
          inner_next |-> build_chain_last_first(SubSeq(mws, 1, Len(mws) - 1))]

\* build_chain: the Next that runs `first.handle(req, inner_next)`,
\* inner_next being the chain built from the rest
RECURSIVE build_chain(_)
build_chain(mws) ==
    IF mws = <<>> THEN HandlerNext
    ELSE [kind |-> "mw", first |-> Head(mws), inner_next |-> build_chain(Tail(mws))]

\* execute_middleware_chain: an empty list calls handler(request) directly,
\* otherwise the built chain is run with the request
ExecuteMiddlewareChain ==
    /\ chainPc = "call"
    /\ next' = IF middlewares = <<>> THEN HandlerNext ELSE build_chain(middlewares)
    /\ chainPc' = "run"
    /\ UNCHANGED <<middlewares, request, stack, events, handlerSaw, response>>
    /\ UNCHANGED NotChain

\* next.run(request) on a middleware node: first.handle(req, inner_next) runs
\* up to its call of inner_next.run (a middleware that marks the request
\* with its name, as AddHeaderMiddleware does, and calls next once)
MiddlewarePre ==
    /\ chainPc = "run" /\ next.kind = "mw"
    /\ events' = Append(events, <<"pre", next.first>>)
    /\ request' = Append(request, next.first)
    /\ stack' = Append(stack, next.first)
    /\ next' = next.inner_next
    /\ UNCHANGED <<middlewares, chainPc, handlerSaw, response>>
    /\ UNCHANGED NotChain

\* next.run(request) on the innermost Next: the terminal handler is invoked
HandlerInvoked ==
    /\ chainPc = "run" /\ next.kind = "handler"
    /\ events' = Append(events, <<"terminal", "">>)
    /\ handlerSaw' = Append(handlerSaw, request)
    /\ chainPc' = "in_handler"
    /\ UNCHANGED <<middlewares, next, request, stack, response>>
    /\ UNCHANGED NotChain

\* the terminal handler's future resolves
HandlerReturns ==
    /\ chainPc = "in_handler"
    /\ response' \in {[tag |-> "Ok", status |-> 200], [tag |-> "Ok", status |-> 503],
                      [tag |-> "Err", error |-> HttpError("connect")]}
    /\ chainPc' = IF stack = <<>> THEN "done" ELSE "unwind"
    /\ UNCHANGED <<middlewares, next, request, stack, events, handlerSaw>>
    /\ UNCHANGED NotChain

\* the innermost waiting handle() gets the result of next.run and returns it
MiddlewarePost ==
    /\ chainPc = "unwind"
    /\ events' = Append(events, <<"post", stack[Len(stack)]>>)
    /\ stack' = SubSeq(stack, 1, Len(stack) - 1)
    /\ chainPc' = IF Len(stack) = 1 THEN "done" ELSE "unwind"
    /\ UNCHANGED <<middlewares, next, request, handlerSaw, response>>
    /\ UNCHANGED NotChain

\* lists of distinct middlewares of length 0 .. MaxChain
MiddlewareLists ==
    {ms \in UNION {[1 .. n -> MiddlewareNames] : n \in 0 .. MaxChain} :
        \A i, j \in DOMAIN ms : i # j => ms[i] # ms[j]}

\* the request as the caller hands it in
InitialRequests == {<<>>, <<"x-api-key">>}

InitChain ==
    /\ middlewares \in MiddlewareLists
    /\ chainPc = "call"
    /\ next = HandlerNext
    /\ request \in InitialRequests
    /\ stack = <<>> /\ events = <<>> /\ handlerSaw = <<>> /\ response = NoValue
    /\ IdlePolicy /\ IdleDelay /\ IdleExec /\ IdleSse /\ IdleOAuth /\ IdleAcc

NextChain ==
    ExecuteMiddlewareChain \/ MiddlewarePre \/ HandlerInvoked \/ HandlerReturns \/ MiddlewarePost

SpecChain == InitChain /\ [][NextChain]_vars

\* a call of execute_raw or execute_streaming on a client with a small policy
InitExec ==
    /\ retry_policy \in [max_retries : 0 .. MaxRetriesBound, initial_delay : {2}, max_delay : {8}]
    /\ build \in {"debug", "release"}
    /\ pc = "call"
    /\ mode \in {"raw", "streaming"}
    /\ callEnv \in [ser_ok : BOOLEAN, build_ok : BOOLEAN, extra_headers : ExtraHeaderValues]
    /\ attemptReq = NoValue /\ executed = NoValue
    /\ oauthTotals = [handler |-> 0, invalidations |-> 0]
    /\ attempt = 0 /\ started = 0 /\ sleeps = 0 /\ result = NoValue
    /\ delay = 0 /\ retried = FALSE /\ returned = NoValue
    /\ IdleDelay /\ IdleChain /\ IdleSse /\ IdleOAuth /\ IdleAcc

NextExec == ExecEnter \/ ExecStartAttempt \/ ExecChainReturns \/ ExecSleepDone

SpecExec == InitExec /\ [][NextExec]_vars

(***************************************************************************)
(* Specification of delay_for_attempt alone: any policy, attempt and hint  *)
(***************************************************************************)
Policies ==
    {[max_retries |-> MaxDelayAttempt, initial_delay |-> 500, max_delay |-> 8000],  \* Default
     [max_retries |-> MaxDelayAttempt, initial_delay |-> 1,   max_delay |-> 10],
     [max_retries |-> 2,               initial_delay |-> 0,   max_delay |-> 8000],
     [max_retries |-> 2,               initial_delay |-> 500, max_delay |-> 0]}

Hints == {None, Some(3000), Some(59999), Some(60000), Some(120000)}

InitDelay ==
    /\ retry_policy \in Policies
    /\ build \in {"debug", "release"}
    /\ dPc = "call"
    /\ dAttempt \in 0 .. retry_policy.max_retries
    /\ dRetryAfter \in Hints
    /\ dResult = [panic |-> FALSE, ms |-> 0]
    /\ IdleExec /\ IdleChain /\ IdleSse /\ IdleOAuth /\ IdleAcc

DelayForAttempt ==
    /\ dPc = "call"
    /\ \E jitter \in JitterRange(CappedMs(retry_policy, dAttempt)) :
         dResult' = delay_for_attempt(retry_policy, build, dAttempt, dRetryAfter, jitter)
    /\ dPc' = IF dResult'.panic THEN "panicked" ELSE "returned"
    /\ UNCHANGED <<dAttempt, dRetryAfter, retry_policy, build, NotDelay>>

NextDelay == DelayForAttempt

SpecDelay == InitDelay /\ [][NextDelay]_vars

(***************************************************************************)
(* streaming/sse.rs: parse_sse_stream                                      *)
(* Text is a sequence of one-character strings.                            *)
(***************************************************************************)
\* largest number of items the line stream delivers before it ends
MaxLines == 3

S_event == <<"e","v","e","n","t">>

S_data == <<"d","a","t","a">>

S_id == <<"i","d">>

S_retry == <<"r","e","t","r","y">>

S_ping == <<"p","i","n","g">>

Whitespace == {" ", "\t", "\n", "\r"}

\* str::find(':'): position of the first colon, 0 when there is none
FirstColon(line) ==
    IF \E i \in DOMAIN line : line[i] = ":"
    THEN CHOOSE i \in DOMAIN line : line[i] = ":" /\ \A j \in 1 .. i - 1 : line[j] # ":"
    ELSE 0

\* parse_field: Some(<<field, value>>), one leading space of the value stripped
parse_field(line) ==
    LET colon_pos == FirstColon(line)
        field     == SubSeq(line, 1, colon_pos - 1)
        rest      == SubSeq(line, colon_pos + 1, Len(line))
        value     == IF rest # <<>> /\ rest[1] = " " THEN Tail(rest) ELSE rest
    IN  IF colon_pos = 0 THEN None ELSE Some(<<field, value>>)

\* str::trim
RECURSIVE trim(_)
trim(t) ==
    IF t # <<>> /\ t[1] \in Whitespace THEN trim(Tail(t))
    ELSE IF t # <<>> /\ t[Len(t)] \in Whitespace THEN trim(SubSeq(t, 1, Len(t) - 1))
    ELSE t

DigitValue(c) == (CHOOSE i \in DOMAIN Digits : Digits[i] = c) - 1

RECURSIVE DecimalValue(_)
DecimalValue(t) ==
    IF t = <<>> THEN 0
    ELSE 10 * DecimalValue(SubSeq(t, 1, Len(t) - 1)) + DigitValue(t[Len(t)])

\* str::parse::<u64> on short texts: Some(n) for a non-empty run of digits
\* (an optional leading "+" is accepted), None otherwise
parse_u64(t) ==
    LET digits == IF t # <<>> /\ t[1] = "+" THEN Tail(t) ELSE t
    IN  IF digits # <<>> /\ \A i \in DOMAIN digits : digits[i] \in Range(Digits)
        THEN Some(DecimalValue(digits)) ELSE None

\* the "data" arm without the "\n" separator
push_data_no_separator(existing, value) ==
    IF existing # None THEN Some(existing[1] \o value) ELSE Some(value)

\* the "data" arm: existing.push('\n'); existing.push_str(value), or Some(value)
push_data(existing, value) ==
    IF existing # None THEN Some(existing[1] \o <<"\n">> \o value) ELSE Some(value)

\* `match field { ... }` applied to the accumulated event
apply_field(cur, field, value) ==
    CASE field = S_event -> [cur EXCEPT !.event = Some(value)]
      [] field = S_data  -> [cur EXCEPT !.data = push_data(cur.data, value)]
      [] field = S_id    -> [cur EXCEPT !.id = Some(value)]
      [] field = S_retry -> IF parse_u64(trim(value)) # None
                            THEN [cur EXCEPT !.retry = parse_u64(trim(value))]
                            ELSE cur
      [] OTHER           -> cur

\* dispatch test that looks at data only
has_data(cur) == cur.data # None

\* `current.event.is_some() || current.data.is_some()`
has_event_or_data(cur) == cur.event # None \/ cur.data # None

\* what std::mem::take leaves behind, were it to leave the value in place
take_keeps(cur) == cur

\* what std::mem::take(&mut current) leaves in `current`
take_leaves(cur) == DefaultRawSseEvent

OkLine(line) == [tag |-> "Ok", line |-> line]

ReadError == [tag |-> "Err"]

OkItem(ev) == [tag |-> "Ok", event |-> ev]

ErrItem == [tag |-> "Err", error |-> OtherError("StreamError")]

\* Some(Ok(line)) with an empty line: dispatch or skip
SseBlankLine ==
    /\ ssePc = "reading" /\ lines # <<>>
    /\ Head(lines).tag = "Ok" /\ Head(lines).line = <<>>
    /\ lines' = Tail(lines)
    /\ consumed' = Append(consumed, Head(lines))
    /\ IF has_event_or_data(current)
       THEN /\ items' = Append(items, OkItem(current))
            /\ current' = take_leaves(current)
            /\ blocks' = Append(blocks, block)
            /\ block' = <<>>
       ELSE /\ block' = Append(block, Head(lines).line)
            /\ UNCHANGED <<items, current, blocks>>
    /\ UNCHANGED <<ssePc, eofItems>>
    /\ UNCHANGED NotSse

\* Some(Ok(line)) starting with ':'
SseCommentLine ==
    /\ ssePc = "reading" /\ lines # <<>>
    /\ Head(lines).tag = "Ok" /\ Head(lines).line # <<>> /\ Head(lines).line[1] = ":"
    /\ lines' = Tail(lines)
    /\ consumed' = Append(consumed, Head(lines))
    /\ block' = Append(block, Head(lines).line)
    /\ UNCHANGED <<ssePc, current, items, blocks, eofItems>>
    /\ UNCHANGED NotSse

\* Some(Ok(line)) with any other line: parse_field and the field match
SseFieldLine ==
    /\ ssePc = "reading" /\ lines # <<>>
    /\ Head(lines).tag = "Ok" /\ Head(lines).line # <<>> /\ Head(lines).line[1] # ":"
    /\ lines' = Tail(lines)
    /\ consumed' = Append(consumed, Head(lines))
    /\ block' = Append(block, Head(lines).line)
    /\ LET parsed == parse_field(Head(lines).line)
       IN  current' = IF parsed # None
                      THEN apply_field(current, parsed[1][1], parsed[1][2])
                      ELSE current
    /\ UNCHANGED <<ssePc, items, blocks, eofItems>>
    /\ UNCHANGED NotSse

\* Some(Err(e)): the error is yielded, the state is kept
SseReadError ==
    /\ ssePc = "reading" /\ lines # <<>>
    /\ Head(lines).tag = "Err"
    /\ lines' = Tail(lines)
    /\ consumed' = Append(consumed, Head(lines))
    /\ items' = Append(items, ErrItem)
    /\ blocks' = Append(blocks, <<>>)
    /\ UNCHANGED <<ssePc, current, block, eofItems>>
    /\ UNCHANGED NotSse

\* None: dispatch what is left, or end the stream
SseSourceEnd ==
    /\ ssePc = "reading" /\ lines = <<>>
    /\ IF has_event_or_data(current)
       THEN /\ items' = Append(items, OkItem(current))
            /\ current' = take_leaves(current)
            /\ blocks' = Append(blocks, block)
            /\ block' = <<>>
            /\ eofItems' = eofItems + 1
            /\ UNCHANGED ssePc
       ELSE /\ ssePc' = "ended"
            /\ UNCHANGED <<items, current, blocks, block, eofItems>>
    /\ UNCHANGED <<lines, consumed>>
    /\ UNCHANGED NotSse

Text(field, sep, value) == field \o sep \o value

\* the lines the source may deliver
SourceLines ==
    {<<>>,
     Text(S_event, <<":", " ">>, <<"a">>), Text(S_event, <<":", " ">>, <<"b">>),
     Text(S_event, <<":">>, S_ping),
     Text(S_data, <<":", " ">>, <<"1">>), Text(S_data, <<":", " ">>, <<"2">>),
     Text(S_data, <<":">>, <<"{", "}">>), Text(S_data, <<":">>, <<>>),
     Text(S_id, <<":", " ">>, <<"7">>),
     Text(S_retry, <<":", " ">>, <<"5", " ">>), Text(S_retry, <<":">>, <<"x">>),
     Text(<<>>, <<":", " ">>, <<"c">>),
     S_data,
     Text(<<"f","o","o">>, <<":", " ">>, <<"1">>)}

SourceItems == {OkLine(l) : l \in SourceLines} \cup {ReadError}

\* "event: a\ndata: 1\n\nevent: b\ndata: 2\n\n"
TwoEventsInput ==
    <<OkLine(Text(S_event, <<":", " ">>, <<"a">>)), OkLine(Text(S_data, <<":", " ">>, <<"1">>)),
      OkLine(<<>>),
      OkLine(Text(S_event, <<":", " ">>, <<"b">>)), OkLine(Text(S_data, <<":", " ">>, <<"2">>)),
      OkLine(<<>>)>>

\* the body of test_parse_sse_stream_empty_lines_between_events
EmptyLinesInput ==
    <<OkLine(<<>>), OkLine(<<>>)>> \o SubSeq(TwoEventsInput, 1, 3)
    \o <<OkLine(<<>>), OkLine(<<>>)>> \o SubSeq(TwoEventsInput, 4, 6)

SseInputs ==
    UNION {[1 .. n -> SourceItems] : n \in 0 .. MaxLines}
    \cup {TwoEventsInput, EmptyLinesInput}

InitSse ==
    /\ ssePc = "reading"
    /\ lines \in SseInputs
    /\ current = DefaultRawSseEvent
    /\ items = <<>> /\ consumed = <<>> /\ block = <<>> /\ blocks = <<>> /\ eofItems = 0
    /\ IdlePolicy /\ IdleDelay /\ IdleExec /\ IdleChain /\ IdleOAuth /\ IdleAcc

NextSse == SseBlankLine \/ SseCommentLine \/ SseFieldLine \/ SseReadError \/ SseSourceEnd

SpecSse == InitSse /\ [][NextSse]_vars

(***************************************************************************)
(* messages/streaming.rs: parse_stream_event, MessageStream::new           *)
(***************************************************************************)
S_message_stop == <<"m","e","s","s","a","g","e","_","s","t","o","p">>

\* serde_json::from_str on the texts the model delivers: "object" for an
\* empty JSON object, "number" for an unsigned integer, "invalid" for
\* anything else (surrounding whitespace is allowed, trailing text is not)
from_str(data) ==
    LET t == trim(data)
    IN  IF Len(t) >= 2 /\ t[1] = "{" /\ t[Len(t)] = "}" /\ trim(SubSeq(t, 2, Len(t) - 1)) = <<>>
        THEN "object"
        ELSE IF t # <<>> /\ (\A i \in DOMAIN t : t[i] \in Range(Digits)) /\ (Len(t) = 1 \/ t[1] # "0")
        THEN "number"
        ELSE "invalid"

\* serde's dispatch on the injected "type" for a payload without fields:
\* only the unit variants can be built
from_value(event_type) ==
    IF event_type = S_ping THEN Some("Ping")
    ELSE IF event_type = S_message_stop THEN Some("MessageStop")
    ELSE None

\* parse_stream_event
parse_stream_event(raw) ==
    LET event_type == IF raw.event # None THEN raw.event[1] ELSE <<>>
        data       == IF raw.data # None THEN raw.data[1] ELSE <<"{", "}">>
        value      == from_str(data)
    IN  IF value = "invalid" THEN ErrItem
        ELSE IF value = "object" /\ from_value(event_type) # None
        THEN [tag |-> "Ok", event |-> from_value(event_type)[1]]
        ELSE ErrItem

\* the items of MessageStream::new(response): sse_stream.map(...)
MessageStreamItems ==
    [i \in DOMAIN items |->
        IF items[i].tag = "Ok" THEN parse_stream_event(items[i].event) ELSE items[i]]

(***************************************************************************)
(* oauth.rs: OAuthTokenManager (get_token, invalidate) and                 *)
(* OAuthMiddleware::handle.  Tasks run on a multi-threaded runtime and     *)
(* share one manager; every .await of the code is a step boundary.         *)
(* Tokens are numbers: the k-th refresh call is answered with access token *)
(* k and refresh token k, or with -k, a string HeaderValue::from_str       *)
(* rejects.  Times are milliseconds.                                       *)
(***************************************************************************)
EXPIRY_BUFFER_MS == 300000

OAUTH_BETA == "oauth-2025-04-20"

NTasks == 2

MaxTicks == 1

Tasks == 1 .. NTasks

\* the clock at construction and the step of the clock
NowStart == 1000000

TickMs == 1000

\* u64::saturating_sub
wrapping_sub(a, b) == IF a >= b THEN a - b ELSE Huge

saturating_sub(a, b) == IF a >= b THEN a - b ELSE 0

\* the test of both paths of get_token: now < expires_at.saturating_sub(EXPIRY_BUFFER_MS)
token_expired(st, t) == t >= st.expires_at

token_fresh(st, t) == t < saturating_sub(st.expires_at, EXPIRY_BUFFER_MS)

\* HeaderValue::from_str(&format!("Bearer {token}")).is_ok()
bearer_ok(token) == token >= 0

OAuthError(msg) == [kind |-> "OAuth", msg |-> msg]

Ok(v) == [tag |-> "Ok", value |-> v]

Err(e) == [tag |-> "Err", error |-> e]

\* what the refresh endpoint can answer: send() fails, a non-success status,
\* a success status whose body is not a TokenRefreshResponse, or a
\* TokenRefreshResponse; expires_in (seconds) is 0 when the field is absent
\* (#[serde(default)])
ExpiresIn == {0, 300, 3600}

RefreshOutcomes ==
    [kind : {"send_failed", "bad_json"}]
    \cup [kind : {"status"}, code : {401, 403, 500}]
    \cup [kind : {"parsed"}, expires_in : ExpiresIn, bearer_ok : BOOLEAN]

\* the requests that reach the middleware: execute_raw / execute_streaming
\* build them with a bytes body (POST) or without a body (GET); headers come
\* from build_headers, anthropic-beta from the request options
NoBeta == None

ArrivingRequests ==
    { [method |-> "POST", url |-> "/v1/messages",
       headers |-> [x_api_key |-> TRUE, authorization |-> None,
                    browser_access |-> FALSE, beta |-> NoBeta],
       body |-> Some(<<"b", "1">>)],
      [method |-> "GET", url |-> "/v1/models",
       headers |-> [x_api_key |-> TRUE, authorization |-> None,
                    browser_access |-> FALSE, beta |-> Some(<<"files-api">>)],
       body |-> None] }

\* what next.run(request).await can give the middleware
DownstreamResults ==
    {Ok(200), Ok(401), Ok(503), Err(HttpError("connect"))}

\* request.body().and_then(|b| b.as_bytes()).map(copy_from_slice).unwrap_or_default()
body_bytes(req) == IF req.body = None THEN <<>> ELSE req.body[1]

\* the merge of OAUTH_BETA into anthropic-beta; a header value is the
\* sequence of its comma-separated parts
new_beta(existing) ==
    IF existing = None THEN <<OAUTH_BETA>>
    ELSE IF \E i \in DOMAIN existing[1] : existing[1][i] = OAUTH_BETA THEN existing[1]
    ELSE Append(existing[1], OAUTH_BETA)

apply_oauth_headers(req, token) ==
    IF ~bearer_ok(token)
    THEN Err(OAuthError("invalid token value for Authorization header"))
    ELSE Ok([req EXCEPT !.headers =
                [x_api_key |-> FALSE, authorization |-> Some(token),
                 browser_access |-> TRUE, beta |-> Some(new_beta(req.headers.beta))]])

\* the details handle saves before the first send
save_details(req) ==
    [method |-> req.method, url |-> req.url, headers |-> req.headers,
     body_bytes |-> body_bytes(req)]

rebuild_request_empty_body(saved) ==
    [method |-> saved.method, url |-> saved.url, headers |-> saved.headers,
     body |-> Some(<<>>)]

rebuild_request(saved) ==
    [method |-> saved.method, url |-> saved.url, headers |-> saved.headers,
     body |-> Some(saved.body_bytes)]

\* the tasks through which a request passes the middleware; the other tasks
\* are the other users of the shared Arc<OAuthTokenManager>, which reach it
\* through get_token and invalidate only
PassTasks == {1}

\* a task that has just made its call: get_token and handle begin at
\* self.state.read().await, invalidate at self.state.write().await
NewTask(op, req, fresh) ==
    [op |-> op,
     pc |-> IF op = "invalidate" THEN "inv_lock" ELSE "fast_lock",
     ctx |-> IF op = "handle" THEN "first" ELSE "call",
     called_fresh |-> fresh,
     request |-> req, saved |-> NoValue,
     sent |-> <<>>, responses |-> <<>>, tokens |-> <<>>, refreshes |-> <<>>,
     invalidations |-> 0, ret |-> NoValue]

Calls(t) ==
    {<<"get_token", NoValue>>, <<"invalidate", NoValue>>}
    \cup (IF t \in PassTasks THEN {<<"handle", req>> : req \in ArrivingRequests} ELSE {})

Returned(rec, res) == [rec EXCEPT !.pc = "done", !.ret = res]

\* handle hands req to the continuation: next.run(request) / next2.run(rebuilt)
RunNext(rec, applied) ==
    IF applied.tag = "Err" THEN Returned(rec, applied)
    ELSE [rec EXCEPT !.pc = "sent", !.sent = Append(@, applied.value)]

\* a handle that tests every response of the continuation for 401
any_response(rec) == TRUE

\* handle tests the response of next.run(request) for 401; the response of
\* next2.run(rebuilt) is returned as it is
first_response(rec) == Len(rec.sent) = 1

\* where a call of get_token returns to: its caller (ctx "call"), handle
\* before the first send (ctx "first"), handle after a 401 (ctx "second")
AfterGetToken(rec, res) ==
    LET r == [rec EXCEPT !.tokens = Append(@, res)]
    IN  IF r.ctx = "call" \/ res.tag = "Err" THEN Returned(r, res)
        ELSE IF r.ctx = "first"
        THEN RunNext([r EXCEPT !.saved = save_details(r.request)],
                     apply_oauth_headers(r.request, res.value))
        ELSE RunNext(r, apply_oauth_headers(rebuild_request(r.saved), res.value))

\* what self.state.write().await waits for
NoReaders == lock.readers = {}

LockFree == lock.writer = 0 /\ lock.readers = {}

\* get_token: self.state.read().await is granted
AcquireRead(t) ==
    /\ task[t].pc = "fast_lock"
    /\ lock.writer = 0
    /\ lock' = [lock EXCEPT !.readers = @ \cup {t}]
    /\ task' = [task EXCEPT ![t] = [@ EXCEPT !.pc = "fast_check"]]
    /\ UNCHANGED <<state, now, refresh_calls, on_refresh, issued, NotOAuth>>

\* get_token, fast path: test under the read lock, which is dropped at the
\* end of the block
FastPath(t) ==
    /\ task[t].pc = "fast_check"
    /\ lock' = [lock EXCEPT !.readers = @ \ {t}]
    /\ task' = [task EXCEPT ![t] =
                  IF token_fresh(state, now)
                  THEN AfterGetToken(@, Ok(state.access_token))
                  ELSE [@ EXCEPT !.pc = "slow_lock"]]
    /\ UNCHANGED <<state, now, refresh_calls, on_refresh, issued, NotOAuth>>

\* get_token, slow path: self.state.write().await is granted, the test is
\* repeated, and the refresh request is sent with the write lock held
SlowPath(t) ==
    /\ task[t].pc = "slow_lock"
    /\ LockFree
    /\ IF token_fresh(state, now)
       THEN /\ task' = [task EXCEPT ![t] = AfterGetToken(@, Ok(state.access_token))]
            /\ UNCHANGED <<lock, refresh_calls>>
       ELSE /\ lock' = [lock EXCEPT !.writer = t]
            /\ refresh_calls' = refresh_calls + 1
            /\ task' = [task EXCEPT ![t] =
                          [@ EXCEPT !.pc = "refreshing",
                                    !.refreshes = Append(@, task[t].ctx)]]
    /\ UNCHANGED <<state, now, on_refresh, issued, NotOAuth>>

\* now + parsed.expires_in * 1000 in u64.  Huge stands for a count of seconds
\* e whose product does not fit in 64 bits, with e * 1000 = 2^64 - 1000
\* modulo 2^64.
\* overflow: the mathematical value does not fit in 64 bits;
\* wrapped:  the value modulo 2^64 (what a build without overflow checks computes).
expiry_after(now_, expires_in) ==
    IF expires_in >= Huge
    THEN [overflow |-> TRUE, wrapped |-> now_ - 1000]
    ELSE [overflow |-> FALSE, wrapped |-> now_ + expires_in * 1000]

\* get_token: the refresh request's send().await (and json().await) completes.
\* A parsed response is stored field by field; the addition of line 162 panics
\* on overflow in a build with overflow checks, after lines 160-161 have
\* stored the two tokens, and unwinding drops the write guard.  A registered
\* callback is called with the write guard still alive.
RefreshResponse(t, out) ==
    /\ task[t].pc = "refreshing"
    /\ IF out.kind = "parsed"
       THEN LET tok == IF out.bearer_ok THEN refresh_calls ELSE 0 - refresh_calls
                exp == expiry_after(now, out.expires_in)
            IN  /\ issued' = [token |-> tok, expires_at |-> exp.wrapped]
                /\ IF exp.overflow /\ build = "debug"
                   THEN /\ state' = [state EXCEPT !.access_token = tok,
                                                  !.refresh_token = tok]
                        /\ lock' = [lock EXCEPT !.writer = 0]
                        /\ task' = [task EXCEPT ![t] = [@ EXCEPT !.pc = "panicked"]]
                   ELSE /\ state' = [access_token |-> tok, refresh_token |-> tok,
                                     expires_at |-> exp.wrapped]
                        /\ IF on_refresh = "None"
                           THEN /\ lock' = [lock EXCEPT !.writer = 0]
                                /\ task' = [task EXCEPT ![t] = AfterGetToken(@, Ok(tok))]
                           ELSE /\ UNCHANGED lock
                                /\ task' = [task EXCEPT ![t] = [@ EXCEPT !.pc = "callback"]]
       ELSE /\ UNCHANGED <<state, issued>>
            /\ lock' = [lock EXCEPT !.writer = 0]
            /\ task' = [task EXCEPT ![t] = AfterGetToken(@,
                          CASE out.kind = "send_failed" -> Err(HttpError("connect"))
                            [] out.kind = "bad_json" ->
                                 Err(OAuthError("invalid refresh response"))
                            [] out.code \in {401, 403} ->
                                 Err(OAuthError("refresh token invalid or revoked"))
                            [] OTHER ->
                                 Err(OAuthError("token refresh failed with status")))]
    /\ UNCHANGED <<now, refresh_calls, on_refresh, NotOAuth>>

\* get_token: cb(&OAuthTokens{..}) returns; Ok(parsed.access_token) is returned
\* and the write guard is dropped
CallbackReturns(t) ==
    /\ task[t].pc = "callback"
    /\ on_refresh = "returns"
    /\ lock' = [lock EXCEPT !.writer = 0]
    /\ task' = [task EXCEPT ![t] = AfterGetToken(@, Ok(state.access_token))]
    /\ UNCHANGED <<state, now, refresh_calls, on_refresh, issued, NotOAuth>>

\* get_token: cb(&OAuthTokens{..}) asks the same manager for a token and blocks
\* on it; that get_token waits at self.state.read().await, which is granted
\* only when no writer holds the lock
CallbackCallsGetToken(t) ==
    /\ task[t].pc = "callback"
    /\ on_refresh = "calls_get_token"
    /\ task' = [task EXCEPT ![t] = [@ EXCEPT !.pc = "cb_fast_lock"]]
    /\ UNCHANGED <<state, lock, now, refresh_calls, on_refresh, issued, NotOAuth>>

\* the suspension points of a call: the lock acquisitions, the refresh
\* request, the continuation of handle
SuspensionPoints == {"fast_lock", "slow_lock", "inv_lock", "refreshing", "sent"}

\* the caller drops the future at a suspension point; the guard it holds, if
\* any, is dropped with it
Cancel(t) ==
    /\ task[t].pc \in SuspensionPoints
    /\ lock' = IF lock.writer = t THEN [lock EXCEPT !.writer = 0] ELSE lock
    /\ task' = [task EXCEPT ![t] = [@ EXCEPT !.pc = "cancelled"]]
    /\ UNCHANGED <<state, now, refresh_calls, on_refresh, issued, NotOAuth>>

\* invalidate: self.state.write().await is granted; expires_at = 0; handle
\* goes on to its second get_token
Invalidate(t) ==
    /\ task[t].pc = "inv_lock"
    /\ LockFree
    /\ state' = [state EXCEPT !.expires_at = 0]
    /\ task' = [task EXCEPT ![t] =
                  IF @.op = "invalidate"
                  THEN [@ EXCEPT !.pc = "done", !.invalidations = @ + 1]
                  ELSE [@ EXCEPT !.pc = "fast_lock", !.ctx = "second",
                                 !.invalidations = @ + 1]]
    /\ UNCHANGED <<lock, now, refresh_calls, on_refresh, issued, NotOAuth>>

\* handle: next.run(request).await / next2.run(rebuilt).await completes
DownstreamReturns(t, res) ==
    /\ task[t].pc = "sent"
    /\ task' = [task EXCEPT ![t] =
                  LET r == [@ EXCEPT !.responses = Append(@, res)]
                  IN  IF first_response(r) /\ res.tag = "Ok" /\ res.value = 401
                      THEN [r EXCEPT !.pc = "inv_lock"]
                      ELSE Returned(r, res)]
    /\ UNCHANGED <<state, lock, now, refresh_calls, on_refresh, issued, NotOAuth>>

\* the clock advances
Tick ==
    /\ now < NowStart + MaxTicks * TickMs
    /\ now' = now + TickMs
    /\ UNCHANGED <<state, lock, refresh_calls, task, on_refresh, issued, NotOAuth>>

\* the tokens the manager is constructed with (OAuthTokens.expires_at): the
\* sentinel 0, inside the buffer, fresh for one more tick, fresh
InitialExpiries ==
    {0, NowStart + EXPIRY_BUFFER_MS - 1000, NowStart + EXPIRY_BUFFER_MS + TickMs,
     NowStart + EXPIRY_BUFFER_MS + 60000}

InitOAuth ==
    /\ state \in [access_token : {0}, refresh_token : {0}, expires_at : InitialExpiries]
    /\ lock = [writer |-> 0, readers |-> {}]
    /\ now = NowStart
    /\ refresh_calls = 0
    /\ on_refresh = "None"
    /\ issued = [token |-> state.access_token, expires_at |-> state.expires_at]
    /\ \E call \in [Tasks -> UNION {Calls(t) : t \in Tasks}] :
          /\ \A t \in Tasks : call[t] \in Calls(t)
          /\ task = [t \in Tasks |->
                       NewTask(call[t][1], call[t][2], token_fresh(state, now))]
    /\ IdlePolicy /\ IdleDelay /\ IdleExec /\ IdleChain /\ IdleSse /\ IdleAcc

NextOAuth ==
    \/ \E t \in Tasks : AcquireRead(t)
    \/ \E t \in Tasks : FastPath(t)
    \/ \E t \in Tasks : SlowPath(t)
    \/ \E t \in Tasks, out \in RefreshOutcomes : RefreshResponse(t, out)
    \/ \E t \in Tasks : Invalidate(t)
    \/ \E t \in Tasks, res \in DownstreamResults : DownstreamReturns(t, res)
    \/ Tick

SpecOAuth == InitOAuth /\ [][NextOAuth]_vars

\* the token manager by itself: every task calls get_token or invalidate, a
\* callback may be registered, a call may be cancelled, and the refresh
\* endpoint may also answer a count of seconds that overflows
OnRefreshKinds == {"None", "returns", "calls_get_token"}

ManagerCalls == {<<"get_token", NoValue>>, <<"invalidate", NoValue>>}

ManagerOutcomes ==
    RefreshOutcomes \cup [kind : {"parsed"}, expires_in : {Huge}, bearer_ok : {TRUE}]

InitManager ==
    /\ state \in [access_token : {0}, refresh_token : {0}, expires_at : InitialExpiries]
    /\ lock = [writer |-> 0, readers |-> {}]
    /\ now = NowStart
    /\ refresh_calls = 0
    /\ on_refresh \in OnRefreshKinds
    /\ issued = [token |-> state.access_token, expires_at |-> state.expires_at]
    /\ \E call \in [Tasks -> ManagerCalls] :
          task = [t \in Tasks |->
                    NewTask(call[t][1], call[t][2], token_fresh(state, now))]
    /\ retry_policy = [max_retries |-> 2, initial_delay |-> 500, max_delay |-> 8000]
    /\ build \in {"debug", "release"}
    /\ IdleDelay /\ IdleExec /\ IdleChain /\ IdleSse /\ IdleAcc

NextManager ==
    \/ \E t \in Tasks : AcquireRead(t)
    \/ \E t \in Tasks : FastPath(t)
    \/ \E t \in Tasks : SlowPath(t)
    \/ \E t \in Tasks, out \in ManagerOutcomes : RefreshResponse(t, out)
    \/ \E t \in Tasks : CallbackReturns(t)
    \/ \E t \in Tasks : CallbackCallsGetToken(t)
    \/ \E t \in Tasks : Invalidate(t)
    \/ \E t \in Tasks : Cancel(t)
    \/ Tick

SpecManager == InitManager /\ [][NextManager]_vars

\* tokio's RwLock serves its waiters in order, so a task waiting for the lock
\* gets it once it is free often enough; the refresh endpoint answers; a
\* callback that does not wait returns
FairManager ==
    /\ SpecManager
    /\ \A t \in Tasks :
          /\ SF_vars(AcquireRead(t)) /\ WF_vars(FastPath(t))
          /\ SF_vars(SlowPath(t)) /\ SF_vars(Invalidate(t))
          /\ WF_vars(\E out \in ManagerOutcomes : RefreshResponse(t, out))
          /\ WF_vars(CallbackReturns(t))

(***************************************************************************)
(* oauth.rs: two requests pass one OAuthMiddleware at the same time.  The  *)
(* token is fresh when they arrive, the server answers the first send of   *)
(* each with 401, and the refresh endpoint answers with a token that is    *)
(* valid for an hour.                                                      *)
(***************************************************************************)
RequestTasks == {1, 2}

ValidForAnHour == [kind |-> "parsed", expires_in |-> 3600, bearer_ok |-> TRUE]

\* handle: next.run(request).await completes with status 401
FirstSendUnauthorized(t) ==
    /\ task[t].ctx = "first"
    /\ DownstreamReturns(t, Ok(401))

\* handle: next2.run(rebuilt).await completes
ReplayReturns(t, res) ==
    /\ task[t].ctx = "second"
    /\ DownstreamReturns(t, res)

InitConcurrent ==
    /\ state = [access_token |-> 0, refresh_token |-> 0,
                expires_at |-> NowStart + EXPIRY_BUFFER_MS + 60000]
    /\ lock = [writer |-> 0, readers |-> {}]
    /\ now = NowStart
    /\ refresh_calls = 0
    /\ on_refresh = "None"
    /\ issued = [token |-> state.access_token, expires_at |-> state.expires_at]
    /\ \E r \in [RequestTasks -> ArrivingRequests] :
          task = [t \in Tasks |-> IF t \in RequestTasks
                                  THEN NewTask("handle", r[t], TRUE)
                                  ELSE [NewTask("handle", r[1], TRUE) EXCEPT !.pc = "done"]]
    /\ IdlePolicy /\ IdleDelay /\ IdleExec /\ IdleChain /\ IdleSse /\ IdleAcc

NextConcurrent ==
    \/ \E t \in RequestTasks : AcquireRead(t)
    \/ \E t \in RequestTasks : FastPath(t)
    \/ \E t \in RequestTasks : SlowPath(t)
    \/ \E t \in RequestTasks : RefreshResponse(t, ValidForAnHour)
    \/ \E t \in RequestTasks : Invalidate(t)
    \/ \E t \in RequestTasks : FirstSendUnauthorized(t)
    \/ \E t \in RequestTasks, res \in DownstreamResults : ReplayReturns(t, res)
    \/ Tick

SpecConcurrent == InitConcurrent /\ [][NextConcurrent]_vars

(***************************************************************************)
(* client.rs with oauth.rs: a call of execute_raw / execute_streaming on a *)
(* client whose middleware chain is the OAuth middleware.  Each attempt    *)
(* runs OAuthMiddleware::handle as task ChainTask; the terminal handler is *)
(* the continuation of handle.                                             *)
(***************************************************************************)
ChainTask == 1

\* largest max_retries of a call through the OAuth middleware
MaxOAuthRetries == 1

\* the request of an attempt as the middleware receives it
ChainRequest == CHOOSE r \in ArrivingRequests : r.method = "POST"

\* no call in progress
TaskAtRest == [NewTask("handle", ChainRequest, FALSE) EXCEPT !.pc = "done"]

\* the result of execute_middleware_chain(..).await, as `match result` gets it
\* from handle: the response of the continuation with its headers, or the error
ChainOutcome(ret, o) ==
    IF ret.tag = "Ok"
    THEN /\ o.tag = "Ok" /\ o.status = ret.value
         /\ o.x_should_retry \in {None, Some(<<"t","r","u","e">>)}
         /\ o.retry_after = None /\ o.body_ok /\ o.body = ApiShapedBody
    ELSE /\ o.tag = "Err"
         /\ o.error = IF ret.error.kind = "OAuth" THEN OtherError("OAuth") ELSE ret.error

\* top of the loop body: the request is built and handed to the chain, whose
\* first middleware is OAuthMiddleware::handle
ExecStartAttemptOAuth ==
    /\ pc = "loop"
    /\ pc' = "in_flight"
    /\ started' = started + 1
    /\ attemptReq' = build_request(executed, mode, callEnv)
    /\ task' = [task EXCEPT ![ChainTask] =
                  NewTask("handle", ChainRequest, token_fresh(state, now))]
    /\ UNCHANGED <<mode, callEnv, executed, oauthTotals, attempt, sleeps, result, delay,
                   retried, returned>>
    /\ UNCHANGED <<state, lock, now, refresh_calls, on_refresh, issued>>
    /\ UNCHANGED <<retry_policy, build, delayVars, chainVars, sseVars, accVars>>

\* handle has returned: `match result`
ExecChainReturnsOAuth ==
    /\ pc = "in_flight"
    /\ task[ChainTask].pc = "done"
    /\ \E o \in Outcomes : ChainOutcome(task[ChainTask].ret, o) /\ ExecClassify(o)
    /\ executed' = ChainRewrites(attemptReq)
    /\ oauthTotals' =
          [handler |-> oauthTotals.handler + Len(task[ChainTask].sent),
           invalidations |-> oauthTotals.invalidations + task[ChainTask].invalidations]
    /\ UNCHANGED <<mode, callEnv, attemptReq, attempt, started>>
    /\ UNCHANGED <<retry_policy, build, NotExec>>

InitExecOAuth ==
    /\ retry_policy \in [max_retries : 0 .. MaxOAuthRetries, initial_delay : {2}, max_delay : {8}]
    /\ build = "release"
    /\ pc = "call"
    /\ mode = "raw"
    /\ callEnv = [ser_ok |-> TRUE, build_ok |-> TRUE, extra_headers |-> None]
    /\ attemptReq = NoValue /\ executed = NoValue
    /\ oauthTotals = [handler |-> 0, invalidations |-> 0]
    /\ attempt = 0 /\ started = 0 /\ sleeps = 0 /\ result = NoValue
    /\ delay = 0 /\ retried = FALSE /\ returned = NoValue
    /\ state \in [access_token : {0}, refresh_token : {0}, expires_at : InitialExpiries]
    /\ lock = [writer |-> 0, readers |-> {}]
    /\ now = NowStart
    /\ refresh_calls = 0
    /\ on_refresh = "None"
    /\ issued = [token |-> state.access_token, expires_at |-> state.expires_at]
    /\ task = [t \in Tasks |-> TaskAtRest]
    /\ IdleDelay /\ IdleChain /\ IdleSse /\ IdleAcc

NextExecOAuth ==
    \/ ExecEnter
    \/ ExecStartAttemptOAuth
    \/ ExecChainReturnsOAuth
    \/ ExecSleepDone
    \/ AcquireRead(ChainTask)
    \/ FastPath(ChainTask)
    \/ SlowPath(ChainTask)
    \/ \E out \in RefreshOutcomes : RefreshResponse(ChainTask, out)
    \/ Invalidate(ChainTask)
    \/ \E res \in DownstreamResults : DownstreamReturns(ChainTask, res)
    \/ Tick

SpecExecOAuth == InitExecOAuth /\ [][NextExecOAuth]_vars

(***************************************************************************)
(* messages/streaming.rs: MessageStream::accumulate_with and apply_delta.  *)
(* Strings are sequences of one-character strings; a JSON value is a       *)
(* record [json, members, text]; content_blocks[i + 1] is the block at     *)
(* index i of the Vec.                                                     *)
(***************************************************************************)
MaxEvents == 4

MaxIndex == 1

\* HashMap<usize, String>: a function from the keys present to their strings
insert(map, key, value) ==
    [k \in DOMAIN map \cup {key} |-> IF k = key THEN value ELSE map[k]]

\* a remove that leaves the entry in place
remove_nothing(map, key) == map

remove(map, key) == [k \in DOMAIN map \ {key} |-> map[k]]

\* texts the deltas carry
S_Hello == <<"H", "e", "l", "l", "o">>

S_World == <<" ", "W", "o", "r", "l", "d">>

S_loc == <<"{", "\"", "l", "o", "c">>

S_ation == <<"a", "t", "i", "o", "n", "\"", ":", "\"", "S", "F", "\"", "}">>

S_location == <<"l", "o", "c", "a", "t", "i", "o", "n">>

\* serde_json::Value
JsonObject(members) == [json |-> "object", members |-> members, text |-> <<>>]

JsonString(text) == [json |-> "string", members |-> <<>>, text |-> text]

\* a JSON string literal without escapes: Some(its characters)
json_string(t) ==
    IF /\ Len(t) >= 2 /\ t[1] = "\"" /\ t[Len(t)] = "\""
       /\ \A i \in 2 .. Len(t) - 1 : t[i] \notin {"\"", "\\"}
    THEN Some(SubSeq(t, 2, Len(t) - 1))
    ELSE None

from_str_value_fails(json_str) == None

\* serde_json::from_str::<Value> on the buffers the deltas can build: a
\* string literal, an empty object, an object with one string member;
\* anything else the deltas can build is not JSON
from_str_value(json_str) ==
    LET t == trim(json_str)
    IN  IF json_string(t) # None THEN Some(JsonString(json_string(t)[1]))
        ELSE IF Len(t) >= 2 /\ t[1] = "{" /\ t[Len(t)] = "}"
        THEN LET inner == trim(SubSeq(t, 2, Len(t) - 1))
                 colon == FirstColon(inner)
                 key   == json_string(trim(SubSeq(inner, 1, colon - 1)))
                 value == json_string(trim(SubSeq(inner, colon + 1, Len(inner))))
             IN  IF inner = <<>> THEN Some(JsonObject(<<>>))
                 ELSE IF colon # 0 /\ key # None /\ value # None
                 THEN Some(JsonObject(<<<<key[1], value[1]>>>>))
                 ELSE None
        ELSE None

\* ContentBlock
TextBlock(text) == [kind |-> "text", text |-> text, citations |-> None]

ThinkingBlock(thinking, signature) ==
    [kind |-> "thinking", thinking |-> thinking, signature |-> signature]

ToolUseBlock(input) ==
    [kind |-> "tool_use", id |-> "tu_1", name |-> "get_weather", input |-> input,
     partial_json |-> None]

ServerToolUseBlock(input) ==
    [kind |-> "server_tool_use", id |-> "st_1", name |-> "web_search", input |-> input]

\* the placeholder pushed for a skipped index
PlaceholderThinking == ThinkingBlock(<<>>, <<>>)

PlaceholderBlock == TextBlock(<<>>)

\* Message
NewMessage(id, content) ==
    [id |-> id, content |-> content, stop_reason |-> None, stop_sequence |-> None,
     usage |-> [input_tokens |-> 10, output_tokens |-> 0]]

\* StreamEvent
MessageStart(msg) == [type |-> "message_start", message |-> msg]

ContentBlockStart(index, content_block) ==
    [type |-> "content_block_start", index |-> index, content_block |-> content_block]

ContentBlockDelta(index, delta) ==
    [type |-> "content_block_delta", index |-> index, delta |-> delta]

ContentBlockStop(index) == [type |-> "content_block_stop", index |-> index]

MessageDelta(stop_reason, output_tokens) ==
    [type |-> "message_delta",
     delta |-> [stop_reason |-> stop_reason, stop_sequence |-> None],
     usage |-> [output_tokens |-> output_tokens]]

MessageStop == [type |-> "message_stop"]

Ping == [type |-> "ping"]

ErrorEvent(error_type, text) ==
    [type |-> "error", error |-> [error_type |-> error_type, message |-> text]]

\* ContentBlockDelta (the delta union)
TextDelta(text) == [type |-> "text_delta", text |-> text]

InputJsonDelta(partial_json) == [type |-> "input_json_delta", partial_json |-> partial_json]

ThinkingDelta(thinking) == [type |-> "thinking_delta", thinking |-> thinking]

SignatureDelta(signature) == [type |-> "signature_delta", signature |-> signature]

CitationsDelta == [type |-> "citations_delta", citation |-> "c1"]

\* Error::StreamError(format!("Stream error: {}: {}", error_type, message))
StreamError(what, error_type, text) ==
    [kind |-> "StreamError", what |-> what, error_type |-> error_type, message |-> text]

\* apply_delta: the block and the buffers after the delta
apply_delta(blk, delta, bufs, index) ==
    CASE blk.kind = "text" /\ delta.type = "text_delta" ->
            [block |-> [blk EXCEPT !.text = @ \o delta.text], bufs |-> bufs]
      [] blk.kind = "thinking" /\ delta.type = "thinking_delta" ->
            [block |-> [blk EXCEPT !.thinking = @ \o delta.thinking], bufs |-> bufs]
      [] blk.kind = "thinking" /\ delta.type = "signature_delta" ->
            [block |-> [blk EXCEPT !.signature = @ \o delta.signature], bufs |-> bufs]
      [] blk.kind = "tool_use" /\ delta.type = "input_json_delta" ->
            [block |-> blk,
             bufs  |-> insert(bufs, index,
                              (IF index \in DOMAIN bufs THEN bufs[index] ELSE <<>>)
                                  \o delta.partial_json)]
      [] OTHER -> [block |-> blk, bufs |-> bufs]

\* while content_blocks.len() <= idx { push(placeholder) }
RECURSIVE grow(_, _)
grow(blocks_, idx) ==
    IF Len(blocks_) <= idx THEN grow(Append(blocks_, PlaceholderBlock), idx) ELSE blocks_

\* the locals of accumulate_with
AccState ==
    [message |-> message, content_blocks |-> content_blocks,
     partial_json_bufs |-> partial_json_bufs]

\* the match on the event, for every event but Error
on_event(st, event) ==
    LET idx == event.index
    IN  CASE event.type = "message_start" ->
                [st EXCEPT !.message = Some(event.message)]
          [] event.type = "content_block_start" ->
                [st EXCEPT !.content_blocks =
                    [grow(st.content_blocks, idx) EXCEPT ![idx + 1] = event.content_block]]
          [] event.type = "content_block_delta" ->
                IF idx < Len(st.content_blocks)
                THEN LET r == apply_delta(st.content_blocks[idx + 1], event.delta,
                                          st.partial_json_bufs, idx)
                     IN  [st EXCEPT !.content_blocks[idx + 1] = r.block,
                                    !.partial_json_bufs = r.bufs]
                ELSE st
          [] event.type = "content_block_stop" ->
                IF idx \in DOMAIN st.partial_json_bufs
                THEN LET json_str == st.partial_json_bufs[idx]
                         parsed   == from_str_value(json_str)
                         input    == IF parsed # None THEN parsed[1] ELSE JsonString(json_str)
                         removed  == [st EXCEPT !.partial_json_bufs = remove(@, idx)]
                     IN  IF idx < Len(st.content_blocks)
                            /\ st.content_blocks[idx + 1].kind = "tool_use"
                         THEN [removed EXCEPT !.content_blocks[idx + 1].input = input]
                         ELSE removed
                ELSE st
          [] event.type = "message_delta" ->
                IF st.message # None
                THEN [st EXCEPT !.message =
                        Some([st.message[1] EXCEPT
                                !.stop_reason = event.delta.stop_reason,
                                !.stop_sequence = event.delta.stop_sequence,
                                !.usage.output_tokens = event.usage.output_tokens])]
                ELSE st
          [] OTHER -> st

\* the match on message after the loop
finish_keeps_content(msg, blocks_) ==
    IF msg # None THEN Ok(msg[1])
    ELSE Err(StreamError("Stream ended without a message_start event", <<>>, <<>>))

finish(msg, blocks_) ==
    IF msg # None THEN Ok([msg[1] EXCEPT !.content = blocks_])
    ELSE Err(StreamError("Stream ended without a message_start event", <<>>, <<>>))

\* the history the properties refer to
NoHist ==
    [message_start |-> FALSE, message_stop |-> FALSE, after_stop |-> 0,
     started |-> {}, text_deltas |-> {}, at_stop |-> NoValue, returned_on |-> "none",
     stale |-> {}, installed_stale |-> {}, since_stop |-> <<>>]

\* the event is a partial-JSON delta
IsJsonDelta(event) ==
    event.type = "content_block_delta" /\ event.delta.type = "input_json_delta"

Record(hist, event, st) ==
    [hist EXCEPT
        !.message_start = @ \/ event.type = "message_start",
        !.message_stop = @ \/ event.type = "message_stop",
        !.after_stop = IF hist.message_stop THEN @ + 1 ELSE @,
        !.started = IF event.type = "content_block_start" THEN @ \cup {event.index} ELSE @,
        !.text_deltas = IF event.type = "content_block_delta" /\ event.delta.type = "text_delta"
                        THEN @ \cup {event.index} ELSE @,
        !.at_stop = IF event.type = "message_stop" /\ ~hist.message_stop THEN st ELSE @,
        !.returned_on = IF event.type = "error" THEN "error_event" ELSE @,
        \* indices whose buffer holds partial JSON from before the latest
        \* ContentBlockStart of the index
        !.stale = IF event.type = "content_block_start"
                  THEN IF event.index \in DOMAIN st.partial_json_bufs
                       THEN @ \cup {event.index} ELSE @ \ {event.index}
                  ELSE IF event.type = "content_block_stop" THEN @ \ {event.index}
                  ELSE @,
        \* indices whose block got its input from such a buffer
        !.installed_stale =
                  IF event.type = "content_block_start" THEN @ \ {event.index}
                  ELSE IF /\ event.type = "content_block_stop"
                          /\ event.index \in hist.stale
                          /\ event.index < Len(st.content_blocks)
                          /\ st.content_blocks[event.index + 1].kind = "tool_use"
                  THEN @ \cup {event.index}
                  ELSE @,
        \* per index, the partial JSON applied to a tool-use block since the
        \* latest ContentBlockStop
        !.since_stop = IF /\ IsJsonDelta(event)
                          /\ event.index < Len(st.content_blocks)
                          /\ st.content_blocks[event.index + 1].kind = "tool_use"
                       THEN insert(@, event.index,
                                   (IF event.index \in DOMAIN @ THEN @[event.index] ELSE <<>>)
                                       \o event.delta.partial_json)
                       ELSE IF event.type = "content_block_stop" THEN remove(@, event.index)
                       ELSE @]

\* the stream has another item: item is what self.next().await yields
NextItem(item) ==
    /\ accPc = "reading"
    /\ IF source.free
       THEN /\ source.budget > 0
            /\ source' = [source EXCEPT !.budget = @ - 1]
       ELSE /\ source.script # <<>>
            /\ item = Head(source.script)
            /\ source' = [source EXCEPT !.script = Tail(@)]

\* Some(Err(e)): `event_result?` returns the error
AccErrItem(item) ==
    /\ item.tag = "Err"
    /\ NextItem(item)
    /\ accPc' = "returned"
    /\ accResult' = Err(item.error)
    /\ accHist' = [accHist EXCEPT !.after_stop = IF accHist.message_stop THEN @ + 1 ELSE @,
                                  !.returned_on = "err_item"]
    /\ UNCHANGED <<message, content_blocks, partial_json_bufs, callbacks, NotAcc>>

\* Some(Ok(StreamEvent::Error { error })): callback, then return the StreamError
AccErrorEvent(item) ==
    /\ item.tag = "Ok" /\ item.event.type = "error"
    /\ NextItem(item)
    /\ callbacks' = callbacks + 1
    /\ accPc' = "returned"
    /\ accResult' = Err(StreamError("Stream error", item.event.error.error_type,
                                    item.event.error.message))
    /\ accHist' = Record(accHist, item.event, AccState)
    /\ UNCHANGED <<message, content_blocks, partial_json_bufs, NotAcc>>

\* Some(Ok(event)) for every other event: callback, then the match arm
AccEvent(item) ==
    /\ item.tag = "Ok" /\ item.event.type # "error"
    /\ NextItem(item)
    /\ callbacks' = callbacks + 1
    /\ LET st == on_event(AccState, item.event)
       IN  /\ message' = st.message
           /\ content_blocks' = st.content_blocks
           /\ partial_json_bufs' = st.partial_json_bufs
    /\ accHist' = Record(accHist, item.event, AccState)
    /\ UNCHANGED <<accPc, accResult, NotAcc>>

\* None: the stream ended; the final match on message
AccStreamEnd ==
    /\ accPc = "reading"
    /\ source.free \/ source.script = <<>>
    /\ accPc' = "returned"
    /\ accResult' = finish(message, content_blocks)
    /\ accHist' = [accHist EXCEPT !.returned_on = "end"]
    /\ UNCHANGED <<source, message, content_blocks, partial_json_bufs, callbacks, NotAcc>>

\* the events a stream may yield
Blocks ==
    {TextBlock(<<>>), ThinkingBlock(<<>>, <<>>), ToolUseBlock(JsonObject(<<>>)),
     ServerToolUseBlock(JsonObject(<<>>))}

Deltas ==
    {TextDelta(S_Hello), InputJsonDelta(S_loc), InputJsonDelta(S_ation),
     ThinkingDelta(<<"h", "m">>), SignatureDelta(<<"s", "g">>), CitationsDelta}

Messages == {NewMessage("m1", <<>>), NewMessage("m2", <<TextBlock(<<"x">>)>>)}

StreamEvents ==
    {MessageStart(m) : m \in Messages}
    \cup {ContentBlockStart(i, b) : i \in 0 .. MaxIndex, b \in Blocks}
    \cup {ContentBlockDelta(i, d) : i \in 0 .. MaxIndex, d \in Deltas}
    \cup {ContentBlockStop(i) : i \in 0 .. MaxIndex}
    \cup {MessageDelta(Some("end_turn"), 42), MessageStop, Ping,
          ErrorEvent("overloaded_error", <<"b", "u", "s", "y">>)}

StreamItems ==
    {[tag |-> "Ok", event |-> e] : e \in StreamEvents}
    \cup {Err(HttpError("body")), Err(OtherError("StreamError"))}

\* MessageStream::from_events on the sequence of the text-accumulation example
HelloWorldEvents ==
    <<MessageStart(NewMessage("m1", <<>>)),
      ContentBlockStart(0, TextBlock(<<>>)),
      ContentBlockDelta(0, TextDelta(S_Hello)),
      ContentBlockDelta(0, TextDelta(S_World)),
      ContentBlockStop(0),
      MessageDelta(Some("end_turn"), 42),
      MessageStop>>

\* ... and on a tool-use block whose input arrives in two partial-JSON deltas
ToolUseEvents ==
    <<MessageStart(NewMessage("m1", <<>>)),
      ContentBlockStart(0, ToolUseBlock(JsonObject(<<>>))),
      ContentBlockDelta(0, InputJsonDelta(S_loc)),
      ContentBlockDelta(0, InputJsonDelta(S_ation)),
      ContentBlockStop(0),
      MessageStop>>

from_events(evs) ==
    [free |-> FALSE, budget |-> 0, script |-> [i \in DOMAIN evs |-> [tag |-> "Ok", event |-> evs[i]]]]

Sources ==
    {[free |-> TRUE, budget |-> MaxEvents, script |-> <<>>],
     from_events(HelloWorldEvents), from_events(ToolUseEvents)}

InitAcc ==
    /\ accPc = "reading"
    /\ source \in Sources
    /\ message = None
    /\ content_blocks = <<>>
    /\ partial_json_bufs = <<>>
    /\ callbacks = 0
    /\ accResult = NoValue
    /\ accHist = NoHist
    /\ IdlePolicy /\ IdleDelay /\ IdleExec /\ IdleChain /\ IdleSse /\ IdleOAuth

NextAcc ==
    \/ \E item \in StreamItems : AccErrItem(item)
    \/ \E item \in StreamItems : AccErrorEvent(item)
    \/ \E item \in StreamItems : AccEvent(item)
    \/ AccStreamEnd

SpecAcc == InitAcc /\ [][NextAcc]_vars

(***************************************************************************)
(* bedrock.rs, vertex.rs: BedrockMiddleware::handle and                    *)
(* VertexMiddleware::handle, as the only middleware of a chain.  A request *)
(* is [method, path, headers, body]: the path is the sequence of its       *)
(* separators and segments, headers the set of header names, the body      *)
(* None or Some([kind, members]) with the members of a JSON object as a    *)
(* function from keys to values.  `request` is the request handle is       *)
(* called with, stack[1].request the local `request` of the running        *)
(* handle.                                                                 *)
(***************************************************************************)
DEFAULT_BEDROCK_VERSION == "bedrock-2023-05-31"

DEFAULT_VERTEX_VERSION == "vertex-2023-10-16"

\* serde_json::Value of a member: a string, a boolean, a number
JStr(text) == <<"string", text>>

JBool(b) == <<"bool", IF b THEN "true" ELSE "false">>

JNum(digits) == <<"number", digits>>

\* Value::as_str, Value::as_bool
as_str(v) == IF v[1] = "string" THEN Some(v[2]) ELSE None

as_bool(v) == IF v[1] = "bool" THEN Some(v[2] = "true") ELSE None

\* str::ends_with("/" + the segments given) on a path
ends_with(path, segments) ==
    /\ Len(path) >= 2 * Len(segments)
    /\ \A i \in DOMAIN segments :
          /\ path[Len(path) - 2 * (Len(segments) - i) - 1] = "/"
          /\ path[Len(path) - 2 * (Len(segments) - i)] = segments[i]

\* Url::set_path: a character outside the path set is percent-encoded
percent_encode(segment) == IF segment = "m 1" THEN "m%201" ELSE segment

set_path(path) == [i \in DOMAIN path |-> percent_encode(path[i])]

\* a version member that replaces the caller's
overwrite_version(obj, version) == insert(obj, "anthropic_version", JStr(version))

\* if !obj.contains_key("anthropic_version") { obj.insert(.., default) }
inject_version(obj, version) ==
    IF "anthropic_version" \in DOMAIN obj THEN obj
    ELSE insert(obj, "anthropic_version", JStr(version))

\* obj.remove("model").and_then(|v| v.as_str()).unwrap_or_default()
model_of(obj) ==
    IF "model" \in DOMAIN obj /\ as_str(obj["model"]) # None
    THEN as_str(obj["model"])[1] ELSE ""

\* obj.get("stream").and_then(|v| v.as_bool()).unwrap_or(false)
stream_of(obj) ==
    IF "stream" \in DOMAIN obj /\ as_bool(obj["stream"]) # None
    THEN as_bool(obj["stream"])[1] ELSE FALSE

\* serde_json::from_slice(body_bytes).unwrap_or(Value::Null), re-serialized
\* after f has changed the members of an object
map_body(body, f(_)) ==
    CASE body.kind = "object" -> [body EXCEPT !.members = f(@)]
      [] body.kind = "not_json" -> [body EXCEPT !.kind = "null"]
      [] OTHER -> body

\* BedrockMiddleware::handle up to provide_credentials().await, for a
\* request whose body has bytes
bedrock_rewrite(req) ==
    LET b == req.body[1]
        rewrite == /\ b.kind = "object" /\ req.method = "POST"
                   /\ (ends_with(req.path, <<"messages">>) \/ ends_with(req.path, <<"complete">>))
        obj == inject_version(b.members, DEFAULT_BEDROCK_VERSION)
        invoke_method == IF stream_of(obj) THEN "invoke-with-response-stream" ELSE "invoke"
        inner(m) == IF rewrite THEN remove(remove(inject_version(m, DEFAULT_BEDROCK_VERSION),
                                                  "model"), "stream")
                    ELSE inject_version(m, DEFAULT_BEDROCK_VERSION)
    IN  [method |-> req.method,
         path |-> IF rewrite
                  THEN set_path(<<"/", "model", "/", model_of(obj), "/", invoke_method>>)
                  ELSE req.path,
         headers |-> req.headers \ {"x-api-key"},
         body |-> Some(map_body(b, inner))]

\* the headers the signing instructions add
sigv4_sign(req) ==
    [req EXCEPT !.headers = @ \cup {"authorization", "x-amz-date", "x-amz-content-sha256"}]

VertexProject == "p1"

VertexRegion == "r1"

\* VertexMiddleware::handle after token(..).await
vertex_rewrite(req) ==
    LET hdrs == (req.headers \cup {"authorization"}) \ {"x-api-key"}
    IN  IF req.body = None THEN [req EXCEPT !.headers = hdrs]
        ELSE
        LET b == req.body[1]
            post == b.kind = "object" /\ req.method = "POST"
            messages == post /\ ends_with(req.path, <<"messages">>)
            count_tokens == post /\ ends_with(req.path, <<"messages", "count_tokens">>)
            obj == inject_version(b.members, DEFAULT_VERTEX_VERSION)
            specifier == IF stream_of(obj) THEN "streamRawPredict" ELSE "rawPredict"
            prefix == <<"/", "v1", "/", "projects", "/", VertexProject, "/", "locations",
                        "/", VertexRegion, "/", "publishers", "/", "anthropic", "/", "models">>
            inner(m) == IF messages THEN remove(inject_version(m, DEFAULT_VERTEX_VERSION), "model")
                        ELSE inject_version(m, DEFAULT_VERTEX_VERSION)
        IN  [method |-> req.method,
             path |-> IF messages
                      THEN set_path(prefix \o <<"/", model_of(obj), ":", specifier>>)
                      ELSE IF count_tokens
                      THEN set_path(prefix \o <<"/", "count-tokens", ":", "rawPredict">>)
                      ELSE req.path,
             headers |-> hdrs,
             body |-> Some(map_body(b, inner))]

\* next.run(request): the terminal handler is invoked with req
RunHandler(mw, req) ==
    /\ stack' = <<[mw |-> mw, request |-> req]>>
    /\ handlerSaw' = Append(handlerSaw, req)
    /\ events' = Append(events, <<"terminal", "">>)
    /\ chainPc' = "in_handler"
    /\ UNCHANGED response

\* handle returns an error through `?`
ShortCircuit(error) ==
    /\ response' = [tag |-> "Err", error |-> error]
    /\ chainPc' = "done"
    /\ stack' = <<>>
    /\ UNCHANGED <<handlerSaw, events>>

\* handle is called: up to the first .await
CloudHandle ==
    /\ chainPc = "call"
    /\ IF middlewares[1] = "Bedrock" /\ request.body = None
       THEN RunHandler("Bedrock", request)
       ELSE /\ stack' = <<[mw |-> middlewares[1],
                           request |-> IF middlewares[1] = "Bedrock"
                                       THEN bedrock_rewrite(request) ELSE request]>>
            /\ chainPc' = "credentials"
            /\ UNCHANGED <<handlerSaw, events, response>>
    /\ UNCHANGED <<middlewares, next, request>>
    /\ UNCHANGED NotChain

\* provide_credentials().await / token(..).await completes; Bedrock signs the
\* request, Vertex sets the Authorization header and rewrites the request
CredentialsOutcomes == {"ok", "no_credentials", "unusable"}

CredentialsReturn(outcome) ==
    /\ chainPc = "credentials"
    /\ IF outcome # "ok"
       THEN ShortCircuit(OtherError("StreamError"))
       ELSE IF stack[1].mw = "Bedrock"
       THEN RunHandler("Bedrock", sigv4_sign(stack[1].request))
       ELSE RunHandler("Vertex", vertex_rewrite(stack[1].request))
    /\ UNCHANGED <<middlewares, next, request>>
    /\ UNCHANGED NotChain

\* the requests execute_raw / execute_streaming can build
CloudPaths ==
    {<<"/", "v1", "/", "messages">>, <<"/", "v1", "/", "complete">>,
     <<"/", "v1", "/", "messages", "/", "count_tokens">>, <<"/", "v1", "/", "models">>}

ModelMembers == {None, Some(JStr("m1")), Some(JStr("m 1")), Some(JNum("7"))}

StreamMembers == {None, Some(JBool(TRUE)), Some(JBool(FALSE)), Some(JStr("true"))}

VersionMembers == {None, Some(JStr("custom-version"))}

\* the members of a body: max_tokens and the optional members given
Members(model, stream, version) ==
    [k \in {"max_tokens"} \cup (IF model = None THEN {} ELSE {"model"})
                          \cup (IF stream = None THEN {} ELSE {"stream"})
                          \cup (IF version = None THEN {} ELSE {"anthropic_version"}) |->
        CASE k = "model" -> model[1]
          [] k = "stream" -> stream[1]
          [] k = "anthropic_version" -> version[1]
          [] OTHER -> JNum("5")]

CloudBodies ==
    {None,
     Some([kind |-> "array", members |-> Members(None, None, None)]),
     Some([kind |-> "not_json", members |-> Members(None, None, None)])}
    \cup {Some([kind |-> "object", members |-> Members(m, st, v)]) :
             m \in ModelMembers, st \in StreamMembers, v \in VersionMembers}

InitCloud ==
    /\ middlewares \in {<<"Bedrock">>, <<"Vertex">>}
    /\ chainPc = "call"
    /\ next = HandlerNext
    /\ request \in [method : {"POST", "GET"}, path : CloudPaths,
                     headers : {{"x-api-key", "anthropic-version"}}, body : CloudBodies]
    /\ stack = <<>> /\ events = <<>> /\ handlerSaw = <<>> /\ response = NoValue
    /\ IdlePolicy /\ IdleDelay /\ IdleExec /\ IdleSse /\ IdleOAuth /\ IdleAcc

NextCloud ==
    \/ CloudHandle
    \/ \E outcome \in CredentialsOutcomes : CredentialsReturn(outcome)
    \/ HandlerReturns
    \/ MiddlewarePost

SpecCloud == InitCloud /\ [][NextCloud]_vars

\* c = min(initial_delay * 2^attempt, max_delay), computed without a word size
RECURSIVE BackoffCap(_, _, _)
BackoffCap(x, a, cap) ==
    IF a = 0 \/ x >= cap THEN Min(x, cap) ELSE BackoffCap(2 * x, a - 1, cap)

(***************************************************************************)
(* C1: one call of execute_raw / execute_streaming starts at most          *)
(* max_retries + 1 attempts, whatever the attempts' outcomes, and ends by  *)
(* returning a value (it neither falls out of the loop nor panics).        *)
(***************************************************************************)
C1_AttemptsBounded ==
    /\ started <= retry_policy.max_retries + 1
    /\ pc # "unreachable"
    /\ pc = "done" => returned.tag \in {"Ok", "Err"}

\* all max_retries + 1 attempts were made, the last one failed retryably
C1_Witness ==
    /\ pc = "done" /\ retry_policy.max_retries = MaxRetriesBound
    /\ started = retry_policy.max_retries + 1
    /\ returned = [tag |-> "Err", error |-> HttpError("timeout")]

(***************************************************************************)
(* C5: for a response with status >= 400 on attempt a the executor retries *)
(* iff a < max_retries and R, where R is the x-should-retry header when it *)
(* is present and the status class otherwise; when it does not retry it    *)
(* returns Error::Api with that status.                                    *)
(***************************************************************************)
\* R of the claim; a header that is neither "true" nor "false" is left to the code
C5_R(o) ==
    IF o.x_should_retry = None THEN is_retryable_status(o.status)
    ELSE IF eq_ignore_ascii_case(o.x_should_retry[1], <<"t","r","u","e">>) THEN TRUE
    ELSE IF o.x_should_retry[1] = <<"f","a","l","s","e">> THEN FALSE
    ELSE Retryable(o)

C5_RetryDecision ==
    (pc \in {"sleeping", "done"} /\ result.tag = "Ok" /\ result.status >= 400)
    => /\ retried <=> (attempt < retry_policy.max_retries /\ C5_R(result))
       /\ ~retried => /\ returned.tag = "Err"
                       /\ returned.error = ApiError(result.status)

(***************************************************************************)
(* C6: delay_for_attempt returns a hint below 60 s unchanged; otherwise it *)
(* returns d with 0.75 * c <= d <= c, c = min(initial_delay * 2^attempt,   *)
(* max_delay), for every attempt in [0, max_retries], without overflow or  *)
(* panic.                                                                  *)
(***************************************************************************)
C6_DelayInRange ==
    dPc \in {"returned", "panicked"}
    => /\ dPc = "returned"
       /\ IF dRetryAfter # None /\ dRetryAfter[1] < SECS_60
          THEN dResult.ms = dRetryAfter[1]
          ELSE LET c == BackoffCap(retry_policy.initial_delay, dAttempt, retry_policy.max_delay)
               IN  /\ 4 * dResult.ms >= 3 * c
                   /\ dResult.ms <= c
                   /\ dResult.ms >= 0

(***************************************************************************)
(* C4: a chain [M1..Mn] of middlewares that each call next once produces   *)
(* the events M1-pre .. Mn-pre, terminal, Mn-post .. M1-post; with n = 0   *)
(* the terminal handler is invoked directly, exactly once, with the        *)
(* request unchanged.                                                      *)
(***************************************************************************)
OnionOrder(ms) ==
    [i \in 1 .. Len(ms) |-> <<"pre", ms[i]>>]
    \o << <<"terminal", "">> >>
    \o [i \in 1 .. Len(ms) |-> <<"post", ms[Len(ms) + 1 - i]>>]

\* the request the chain was called with: what is left of `request` without
\* the marks of the middlewares that have run
CallerRequest == SubSeq(request, 1, Len(request) - Len(stack))

C4_OnionOrder ==
    /\ chainPc = "done" => events = OnionOrder(middlewares)
    /\ chainPc \in {"in_handler", "unwind", "done"} => Len(handlerSaw) = 1
    /\ (chainPc = "in_handler" /\ middlewares = <<>>) => handlerSaw = <<request>> /\ stack = <<>>
    /\ (chainPc = "in_handler") => handlerSaw[1] = CallerRequest \o middlewares

\* a chain of MaxChain middlewares has unwound completely
C4_Witness ==
    /\ chainPc = "done" /\ Len(middlewares) = MaxChain
    /\ Len(events) = 2 * MaxChain + 1

(***************************************************************************)
(* C7: after any blank line the accumulation state is empty, and the       *)
(* blank line emits an event iff one of event, data, id, retry was set     *)
(* since the previous dispatch.                                            *)
(***************************************************************************)
AnyFieldSet(cur) == cur.event # None \/ cur.data # None \/ cur.id # None \/ cur.retry # None

EventOrDataSet(cur) == cur.event # None \/ cur.data # None

BlankLineIsNext == ssePc = "reading" /\ lines # <<>> /\ Head(lines) = OkLine(<<>>)

Emits == Len(items') = Len(items) + 1

C7_BlankLineAnyField ==
    [][BlankLineIsNext => /\ current' = DefaultRawSseEvent
                          /\ Emits <=> AnyFieldSet(current)]_vars

RawEvent(e, d) == [event |-> Some(e), data |-> Some(d), id |-> None, retry |-> None]

(***************************************************************************)
(* C7 as amended: a blank line emits an event iff event or data was set    *)
(* since the previous dispatch; after a blank line that emits, the         *)
(* accumulation state is empty; after one that does not emit, event and    *)
(* data are absent and an id or retry set before it is retained; no empty  *)
(* event is ever emitted, and the two-event input yields exactly           *)
(* {event:a,data:1} and {event:b,data:2}.                                  *)
(***************************************************************************)
C7_BlankLineEventOrData ==
    /\ [][BlankLineIsNext =>
            /\ Emits <=> EventOrDataSet(current)
            /\ Emits => items' = Append(items, OkItem(current)) /\ current' = DefaultRawSseEvent
            /\ ~Emits => items' = items /\ current' = current
            /\ ~EventOrDataSet(current')]_vars
    /\ [](\A i \in DOMAIN items : items[i].tag = "Ok" => EventOrDataSet(items[i].event))
    /\ []((ssePc = "ended" /\ consumed \in {TwoEventsInput, EmptyLinesInput})
           => items = <<OkItem(RawEvent(<<"a">>, <<"1">>)), OkItem(RawEvent(<<"b">>, <<"2">>))>>)

\* the two-event input has been decoded to the end
C7_Witness ==
    ssePc = "ended" /\ consumed = TwoEventsInput /\ Len(items) = 2

(***************************************************************************)
(* C8: when the source ends, exactly one more event is emitted if any of   *)
(* event, data, id, retry was set since the last dispatch, and none        *)
(* otherwise; then the sequence ends.                                      *)
(***************************************************************************)
SourceEnded == ssePc = "reading" /\ lines = <<>>

C8_EndAnyField ==
    [][SourceEnded =>
         IF AnyFieldSet(current)
         THEN items' = Append(items, OkItem(current))
         ELSE items' = items /\ ssePc' = "ended"]_vars

(***************************************************************************)
(* C8 as amended: when the source ends, exactly one more event carrying    *)
(* the accumulated fields is emitted if event or data was set since the    *)
(* last dispatch, and then the sequence ends; otherwise (nothing set, or   *)
(* only id / retry set) the sequence ends with no further item.            *)
(***************************************************************************)
C8_EndEventOrData ==
    /\ [][SourceEnded =>
            IF EventOrDataSet(current)
            THEN /\ items' = Append(items, OkItem(current))
                 /\ current' = DefaultRawSseEvent /\ ssePc' = "reading" /\ lines' = <<>>
            ELSE items' = items /\ ssePc' = "ended"]_vars
    /\ [](eofItems <= 1)
    /\ [](ssePc = "ended" => lines = <<>> /\ ~EventOrDataSet(current))

\* the source ended after a field line and the pending event was emitted
C8_Witness ==
    /\ ssePc = "ended" /\ eofItems = 1 /\ consumed # <<>>
    /\ consumed[Len(consumed)] # OkLine(<<>>)
    /\ items[Len(items)].tag = "Ok"

(***************************************************************************)
(* C9: an emitted event's data is the values of all data lines since the   *)
(* previous dispatch, in order, joined by one "\n"; event and id are the   *)
(* values of the last event / id line; comments, lines without colon,      *)
(* unknown fields and non-numeric retry values change nothing and yield    *)
(* no error item.                                                          *)
(***************************************************************************)
\* what each line of SourceLines says, read off the wire format
LineMeaning(l) ==
    CASE l = Text(S_event, <<":", " ">>, <<"a">>)  -> <<"event", <<"a">>>>
      [] l = Text(S_event, <<":", " ">>, <<"b">>)  -> <<"event", <<"b">>>>
      [] l = Text(S_event, <<":">>, S_ping)        -> <<"event", S_ping>>
      [] l = Text(S_data, <<":", " ">>, <<"1">>)   -> <<"data", <<"1">>>>
      [] l = Text(S_data, <<":", " ">>, <<"2">>)   -> <<"data", <<"2">>>>
      [] l = Text(S_data, <<":">>, <<"{", "}">>)   -> <<"data", <<"{", "}">>>>
      [] l = Text(S_data, <<":">>, <<>>)           -> <<"data", <<>>>>
      [] l = Text(S_id, <<":", " ">>, <<"7">>)     -> <<"id", <<"7">>>>
      [] l = Text(S_retry, <<":", " ">>, <<"5", " ">>) -> <<"retry", <<"5">>>>
      [] l = <<>>                                  -> <<"blank", <<>>>>
      [] OTHER                                     -> <<"ignored", <<>>>>

ValuesOf(blk, kind) ==
    LET sel == SelectSeq(blk, LAMBDA l : LineMeaning(l)[1] = kind)
    IN  [i \in DOMAIN sel |-> LineMeaning(sel[i])[2]]

RECURSIVE JoinLines(_)
JoinLines(vals) ==
    IF Len(vals) = 1 THEN vals[1]
    ELSE JoinLines(SubSeq(vals, 1, Len(vals) - 1)) \o <<"\n">> \o vals[Len(vals)]

LastOf(vals) == IF vals = <<>> THEN None ELSE Some(vals[Len(vals)])

IgnoredLineIsNext ==
    /\ ssePc = "reading" /\ lines # <<>> /\ Head(lines).tag = "Ok"
    /\ LineMeaning(Head(lines).line)[1] = "ignored"

C9_DataJoined ==
    /\ [](\A i \in DOMAIN items :
            items[i].tag = "Ok" =>
              /\ items[i].event.data =
                    (IF ValuesOf(blocks[i], "data") = <<>> THEN None
                     ELSE Some(JoinLines(ValuesOf(blocks[i], "data"))))
              /\ items[i].event.event = LastOf(ValuesOf(blocks[i], "event"))
              /\ items[i].event.id = LastOf(ValuesOf(blocks[i], "id")))
    /\ [][IgnoredLineIsNext => current' = current /\ items' = items]_vars

\* an event built from three data lines, one of them empty
C9_Witness ==
    \E i \in DOMAIN items :
        /\ items[i].tag = "Ok"
        /\ Len(ValuesOf(blocks[i], "data")) = 3
        /\ <<>> \in Range(ValuesOf(blocks[i], "data"))

(***************************************************************************)
(* C10: a MessageStream yields at most one Err item and that item is the   *)
(* last one; a failing event is reported as Err at its position.           *)
(***************************************************************************)
C10_ErrorIsFinal ==
    \A i \in DOMAIN MessageStreamItems :
        MessageStreamItems[i].tag = "Err" => i = Len(MessageStreamItems)

(***************************************************************************)
(* C2: when every task calls get_token on a manager whose token is         *)
(* expired, and every call returns a token, then exactly one refresh       *)
(* request was sent during the run and all callers returned the same       *)
(* token, whatever expires_in the refresh response carried.                *)
(***************************************************************************)
GetTokenRace ==
    \A t \in Tasks :
        /\ task[t].op = "get_token"
        /\ ~task[t].called_fresh

C2_SingleRefresh ==
    (/\ GetTokenRace
     /\ \A t \in Tasks : task[t].pc = "done" /\ task[t].ret.tag = "Ok")
    => /\ refresh_calls = 1
       /\ \A t, u \in Tasks : task[t].ret.value = task[u].ret.value

(***************************************************************************)
(* C3 as stated: in a finished pass through OAuthMiddleware::handle whose  *)
(* first send was answered with 401 there was exactly one invalidate, one  *)
(* refresh request after the 401, and one replay with the arriving         *)
(* request's method, URL and body bytes, whose response is what the pass   *)
(* returns (no third send); when the first send was not answered with 401  *)
(* there was no invalidate, no refresh after it and no replay.             *)
(***************************************************************************)
HandleDone(t) ==
    /\ task[t].op = "handle"
    /\ task[t].pc = "done"
    /\ Len(task[t].responses) >= 1

First401(t) ==
    task[t].responses[1].tag = "Ok" /\ task[t].responses[1].value = 401

SecondRefreshes(t) ==
    Cardinality({i \in DOMAIN task[t].refreshes : task[t].refreshes[i] = "second"})

SameRequest(a, b) ==
    a.method = b.method /\ a.url = b.url /\ body_bytes(a) = body_bytes(b)

C3_AlwaysOneReplay ==
    \A t \in Tasks : HandleDone(t) =>
        IF First401(t)
        THEN /\ task[t].invalidations = 1
             /\ SecondRefreshes(t) = 1
             /\ Len(task[t].sent) = 2
             /\ SameRequest(task[t].sent[2], task[t].request)
             /\ Len(task[t].responses) = 2
             /\ task[t].ret = task[t].responses[2]
        ELSE /\ task[t].invalidations = 0
             /\ SecondRefreshes(t) = 0
             /\ Len(task[t].sent) = 1

(***************************************************************************)
(* C3 amended: a pass invalidates at most once and sends at most twice.    *)
(* When the first send was answered with 401 the pass made exactly one     *)
(* invalidate and exactly one further get_token call, which sent one       *)
(* refresh request unless another task refreshed the token in between; if  *)
(* that call returned a token usable as a header value, there was exactly  *)
(* one replay with the arriving request's method, URL and body bytes and   *)
(* the first send's headers except for the new bearer token, and the       *)
(* replay's result, a 401 response included, is what the pass returns;     *)
(* otherwise there was no replay and the pass returns the error.  When the *)
(* first send was not answered with 401 the pass returns its result with   *)
(* no invalidate, no further get_token call and no replay.                 *)
(***************************************************************************)
C3_ReplayIfTokenObtained ==
    \A t \in Tasks : task[t].op = "handle" =>
        /\ task[t].invalidations <= 1
        /\ Len(task[t].sent) <= 2
        /\ HandleDone(t) =>
            IF First401(t)
            THEN /\ task[t].invalidations = 1
                 /\ Len(task[t].tokens) = 2
                 /\ SecondRefreshes(t) <= 1
                 /\ SecondRefreshes(t) = 0 =>
                        \E u \in Tasks \ {t} : task[u].refreshes # <<>>
                 /\ IF task[t].tokens[2].tag = "Ok" /\ bearer_ok(task[t].tokens[2].value)
                    THEN /\ Len(task[t].sent) = 2
                         /\ SameRequest(task[t].sent[2], task[t].request)
                         /\ task[t].sent[2].headers.authorization
                                = Some(task[t].tokens[2].value)
                         /\ [task[t].sent[2].headers EXCEPT !.authorization =
                                task[t].sent[1].headers.authorization]
                                = task[t].sent[1].headers
                         /\ Len(task[t].responses) = 2
                         /\ task[t].ret = task[t].responses[2]
                    ELSE /\ Len(task[t].sent) = 1
                         /\ Len(task[t].responses) = 1
                         /\ task[t].ret.tag = "Err"
            ELSE /\ task[t].invalidations = 0
                 /\ Len(task[t].tokens) = 1
                 /\ SecondRefreshes(t) = 0
                 /\ Len(task[t].sent) = 1
                 /\ task[t].ret = task[t].responses[1]

\* a pass that replayed a request with a body and got a second 401
C3_Witness ==
    \E t \in Tasks :
        /\ HandleDone(t)
        /\ task[t].request.body # None
        /\ Len(task[t].sent) = 2
        /\ Len(task[t].responses) = 2
        /\ task[t].responses[2].tag = "Ok" /\ task[t].responses[2].value = 401
        /\ task[t].ret = Ok(401)

(***************************************************************************)
(* C11: accumulate returns Ok(message) exactly when the stream ended with  *)
(* a MessageStart consumed and neither an Error event nor an Err item      *)
(* read; the message's content is then the final content_blocks, whatever  *)
(* content the MessageStart carried.  An Error event makes it return a     *)
(* StreamError with the server's error type and message at once, and the   *)
(* end of a stream without MessageStart makes it return a StreamError.     *)
(***************************************************************************)
C11_AccumulateResult ==
    accPc = "returned" =>
        /\ accResult.tag = "Ok" <=>
                (accHist.returned_on = "end" /\ accHist.message_start)
        /\ accResult.tag = "Ok" =>
                /\ message # None
                /\ accResult.value = [message[1] EXCEPT !.content = content_blocks]
        /\ accHist.returned_on = "error_event" =>
                accResult = Err(StreamError("Stream error", "overloaded_error",
                                            <<"b", "u", "s", "y">>))
        /\ (accHist.returned_on = "end" /\ ~accHist.message_start) =>
                /\ accResult.tag = "Err"
                /\ accResult.error.kind = "StreamError"

\* a message returned with blocks that differ from the MessageStart's content
C11_Witness ==
    /\ accPc = "returned" /\ accResult.tag = "Ok"
    /\ message[1].content # <<>>
    /\ content_blocks # <<>>
    /\ accResult.value.content = content_blocks
    /\ accResult.value.content # message[1].content

(***************************************************************************)
(* C12 as stated: content_blocks is always at least h + 1 long, h the      *)
(* highest index of a ContentBlockStart consumed so far; every index below *)
(* h that got no ContentBlockStart holds an empty text block without       *)
(* citations; a ContentBlockStart installs its block at its index and      *)
(* leaves the other positions as they were; no event shrinks               *)
(* content_blocks.                                                         *)
(***************************************************************************)
HighestStart ==
    CHOOSE i \in accHist.started : \A j \in accHist.started : j <= i

LongEnough ==
    accHist.started # {} => Len(content_blocks) >= HighestStart + 1

StartInstalls ==
    \A item \in StreamItems :
        (item.tag = "Ok" /\ item.event.type = "content_block_start" /\ AccEvent(item)) =>
            /\ content_blocks'[item.event.index + 1] = item.event.content_block
            /\ \A i \in DOMAIN content_blocks :
                    i # item.event.index + 1 => content_blocks'[i] = content_blocks[i]

NeverShrinks == Len(content_blocks') >= Len(content_blocks)

C12_SkippedStayEmpty ==
    /\ [](accPc # "idle" =>
            /\ LongEnough
            /\ accHist.started # {} =>
                  \A i \in 0 .. HighestStart - 1 :
                      i \notin accHist.started => content_blocks[i + 1] = PlaceholderBlock)
    /\ [][StartInstalls /\ NeverShrinks]_vars

(***************************************************************************)
(* C12 amended: as above, except that a skipped index holds a text block   *)
(* without citations, which is empty as long as no text delta was          *)
(* received for that index.                                                *)
(***************************************************************************)
C12_SkippedAreText ==
    /\ [](accPc # "idle" =>
            /\ LongEnough
            /\ accHist.started # {} =>
                  \A i \in 0 .. HighestStart - 1 :
                      i \notin accHist.started =>
                          /\ content_blocks[i + 1].kind = "text"
                          /\ content_blocks[i + 1].citations = None
                          /\ i \notin accHist.text_deltas =>
                                 content_blocks[i + 1] = PlaceholderBlock)
    /\ [][StartInstalls /\ NeverShrinks]_vars

\* index 1 was started, index 0 was not and has received a text delta
C12_Witness ==
    /\ accHist # NoValue
    /\ accHist.started = {1}
    /\ Len(content_blocks) = 2
    /\ content_blocks[1] = TextBlock(S_Hello)

(***************************************************************************)
(* C13 as stated: at ContentBlockStop{index} with a buffer for index and a *)
(* tool-use block at index, the block's input becomes the parsed buffer,   *)
(* or the raw buffer as a JSON string when it does not parse; without a    *)
(* buffer for index nothing changes; and no buffer is ever discarded       *)
(* without having been installed: a buffer that disappears was installed   *)
(* in that step, and no buffer is left when a message is returned.         *)
(***************************************************************************)
InputOf(json_str) ==
    IF from_str_value(json_str) # None THEN from_str_value(json_str)[1]
    ELSE JsonString(json_str)

IsToolUseAt(blocks_, idx) ==
    idx < Len(blocks_) /\ blocks_[idx + 1].kind = "tool_use"

StopInstalls ==
    \A item \in StreamItems :
        (item.tag = "Ok" /\ item.event.type = "content_block_stop" /\ AccEvent(item)) =>
            LET idx == item.event.index
            IN  IF idx \in DOMAIN partial_json_bufs
                THEN IsToolUseAt(content_blocks, idx) =>
                        /\ content_blocks' =
                              [content_blocks EXCEPT ![idx + 1].input =
                                  InputOf(partial_json_bufs[idx])]
                        /\ message' = message
                ELSE UNCHANGED <<message, content_blocks, partial_json_bufs>>

DiscardedOnlyInstalled ==
    \A idx \in DOMAIN partial_json_bufs :
        idx \notin DOMAIN partial_json_bufs' =>
            /\ IsToolUseAt(content_blocks', idx)
            /\ content_blocks'[idx + 1].input = InputOf(partial_json_bufs[idx])

LocationSF == JsonObject(<<<<S_location, <<"S", "F">>>>>>)

ToolUseExample ==
    (accPc = "returned" /\ source = from_events(<<>>) /\ callbacks = Len(ToolUseEvents)) =>
        /\ accResult.tag = "Ok"
        /\ accResult.value.content[1].input = LocationSF

C13_NeverDiscarded ==
    /\ [][StopInstalls /\ DiscardedOnlyInstalled]_vars
    /\ []ToolUseExample
    /\ []((accPc = "returned" /\ accResult.tag = "Ok") => DOMAIN partial_json_bufs = {})

(***************************************************************************)
(* C13 amended: ContentBlockStop{index} removes the buffer of index if     *)
(* there is one; if the block at index is then a tool-use block its input  *)
(* becomes the parsed buffer, or the raw buffer as a JSON string when it   *)
(* does not parse, and if it is not (a later ContentBlockStart replaced    *)
(* it) the buffer is dropped and no block changes; without a buffer for    *)
(* index nothing changes.  Buffers are removed by ContentBlockStop only: a *)
(* buffer whose index gets no ContentBlockStop before the stream ends is   *)
(* not installed, and the returned content is content_blocks as it is.     *)
(***************************************************************************)
StopRemoves ==
    \A item \in StreamItems :
        (item.tag = "Ok" /\ item.event.type = "content_block_stop" /\ AccEvent(item)) =>
            LET idx == item.event.index
            IN  IF idx \in DOMAIN partial_json_bufs
                THEN /\ partial_json_bufs' = remove(partial_json_bufs, idx)
                     /\ message' = message
                     /\ content_blocks' =
                           IF IsToolUseAt(content_blocks, idx)
                           THEN [content_blocks EXCEPT ![idx + 1].input =
                                    InputOf(partial_json_bufs[idx])]
                           ELSE content_blocks
                ELSE UNCHANGED <<message, content_blocks, partial_json_bufs>>

RemovedByStopOnly ==
    (\E idx \in DOMAIN partial_json_bufs : idx \notin DOMAIN partial_json_bufs') =>
        \E item \in StreamItems :
            item.tag = "Ok" /\ item.event.type = "content_block_stop" /\ AccEvent(item)

C13_StopInstallsOrDrops ==
    /\ [][StopRemoves /\ RemovedByStopOnly]_vars
    /\ []ToolUseExample
    /\ []((accPc = "returned" /\ accResult.tag = "Ok") =>
              accResult.value.content = content_blocks)

\* the two partial-JSON deltas of the example were installed as an object
C13_Witness ==
    /\ accPc = "reading"
    /\ callbacks = 5
    /\ Len(content_blocks) = 1
    /\ content_blocks[1].kind = "tool_use"
    /\ content_blocks[1].input = LocationSF
    /\ DOMAIN partial_json_bufs = {}

(***************************************************************************)
(* C14: consuming MessageStop changes neither message nor content_blocks   *)
(* nor the buffers; after it accumulate reads no further item, so what it  *)
(* returns is the message as it stood at MessageStop, whatever follows in  *)
(* the stream.                                                             *)
(***************************************************************************)
MessageStopNoChange ==
    \A item \in StreamItems :
        (item.tag = "Ok" /\ item.event.type = "message_stop" /\ AccEvent(item)) =>
            UNCHANGED <<message, content_blocks, partial_json_bufs>>

C14_StopsAtMessageStop ==
    /\ [][MessageStopNoChange]_vars
    /\ [](accHist.after_stop = 0)
    /\ []((accPc = "returned" /\ accHist.message_stop) =>
              accResult = finish(accHist.at_stop.message, accHist.at_stop.content_blocks))

(***************************************************************************)
(* C15: ContentBlockDelta{index, delta} never changes the message; for an  *)
(* index below the length of content_blocks it appends a text delta to a   *)
(* text block, a thinking or signature delta to a thinking block, a        *)
(* partial-JSON delta to the buffer of index without touching the block,   *)
(* and does nothing for any other pair; for any other index it changes     *)
(* nothing.  The Hello World example returns content[0].text =             *)
(* "Hello World" and stop_reason = end_turn.                               *)
(***************************************************************************)
\* the effect the claim gives a delta on a block and the buffers
DeltaEffect(blk, delta, bufs, index) ==
    CASE blk.kind = "text" /\ delta.type = "text_delta" ->
            [block |-> [blk EXCEPT !.text = @ \o delta.text], bufs |-> bufs]
      [] blk.kind = "thinking" /\ delta.type = "thinking_delta" ->
            [block |-> [blk EXCEPT !.thinking = @ \o delta.thinking], bufs |-> bufs]
      [] blk.kind = "thinking" /\ delta.type = "signature_delta" ->
            [block |-> [blk EXCEPT !.signature = @ \o delta.signature], bufs |-> bufs]
      [] delta.type = "input_json_delta" ->
            [block |-> blk,
             bufs  |-> insert(bufs, index,
                              (IF index \in DOMAIN bufs THEN bufs[index] ELSE <<>>)
                                  \o delta.partial_json)]
      [] OTHER -> [block |-> blk, bufs |-> bufs]

DeltaAsStated ==
    \A item \in StreamItems :
        (item.tag = "Ok" /\ item.event.type = "content_block_delta" /\ AccEvent(item)) =>
            LET idx == item.event.index
            IN  /\ message' = message
                /\ IF idx < Len(content_blocks)
                   THEN LET r == DeltaEffect(content_blocks[idx + 1], item.event.delta,
                                             partial_json_bufs, idx)
                        IN  /\ content_blocks' = [content_blocks EXCEPT ![idx + 1] = r.block]
                            /\ partial_json_bufs' = r.bufs
                   ELSE UNCHANGED <<content_blocks, partial_json_bufs>>

HelloWorldExample ==
    (accPc = "returned" /\ source = from_events(<<>>) /\ callbacks = Len(HelloWorldEvents)) =>
        /\ accResult.tag = "Ok"
        /\ accResult.value.content[1].text = S_Hello \o S_World
        /\ accResult.value.stop_reason = Some("end_turn")

C15_DeltaEffects ==
    /\ [][DeltaAsStated]_vars
    /\ []HelloWorldExample

(***************************************************************************)
(* C16: invalidate() sets expires_at to 0 and changes nothing else; from   *)
(* then on, whatever the token state was before, no get_token() returns    *)
(* the cached access token, neither from the fast path nor from the        *)
(* re-check of the slow path: the next get_token() to test the state sends *)
(* a refresh request.                                                      *)
(***************************************************************************)
InvalidateForcesExpiry ==
    \A t \in Tasks :
        Invalidate(t) =>
            /\ state' = [state EXCEPT !.expires_at = 0]
            /\ \A u \in Tasks : task[u].pc \notin {"refreshing", "callback"}

InvalidatedUntilRefreshed ==
    (state.expires_at = 0 /\ state' # state) =>
        \E t \in Tasks : task[t].pc = "refreshing" /\ task'[t].pc # "refreshing"

InvalidatedIsRefreshed ==
    state.expires_at = 0 =>
        \A t \in Tasks :
            /\ FastPath(t) => task'[t].pc = "slow_lock"
            /\ SlowPath(t) =>
                  /\ task'[t].pc = "refreshing"
                  /\ refresh_calls' = refresh_calls + 1

C16_InvalidateForcesRefresh ==
    /\ [][InvalidateForcesExpiry]_vars
    /\ [][InvalidatedUntilRefreshed]_vars
    /\ [][InvalidatedIsRefreshed]_vars

\* a token that was fresh when get_token was called is refreshed because
\* another task's invalidate() completed first
C16_Witness ==
    \E t, u \in Tasks :
        /\ task[t].op = "invalidate" /\ task[t].pc = "done"
        /\ task[u].op = "get_token" /\ task[u].called_fresh
        /\ task[u].pc = "refreshing" /\ now = NowStart
        /\ state.expires_at = 0

(***************************************************************************)
(* C17: a get_token() that tests the state while                           *)
(* now < expires_at - 300000 returns the cached access_token, sends no     *)
(* refresh request, holds the lock shared only and never exclusively, and  *)
(* leaves the three fields as they are; shared access is granted to a      *)
(* caller whatever the number of callers that hold it already.             *)
(***************************************************************************)
FreshFastPath ==
    \A t \in Tasks :
        (FastPath(t) /\ now < state.expires_at - EXPIRY_BUFFER_MS) =>
            /\ task'[t].pc = "done"
            /\ task'[t].ret = Ok(state.access_token)
            /\ task[t].refreshes = <<>> /\ task'[t].refreshes = <<>>
            /\ refresh_calls' = refresh_calls
            /\ state' = state
            /\ t \in lock.readers /\ lock.writer = 0
            /\ lock' = [lock EXCEPT !.readers = @ \ {t}]

SharedIsShared ==
    \A t \in Tasks :
        (task[t].pc = "fast_lock" /\ lock.writer = 0) => ENABLED AcquireRead(t)

Refreshing == {t \in Tasks : task[t].pc = "refreshing"}

RefreshIsExclusive ==
    /\ Cardinality(Refreshing) <= 1
    /\ \A t \in Refreshing :
          /\ lock = [writer |-> t, readers |-> {}]
          /\ \A u \in Tasks : task[u].pc # "fast_check"

NoAccessDuringRefresh ==
    \A t \in Refreshing :
        /\ \A u \in Tasks \ {t} : ~FastPath(u) /\ ~SlowPath(u) /\ ~Invalidate(u)
        /\ state' # state => task'[t].pc # "refreshing"

C18_OneRefreshInFlight ==
    /\ []RefreshIsExclusive
    /\ [][NoAccessDuringRefresh]_vars

\* a task that raced into the slow path waits while another one refreshes
C18_Witness ==
    \E t, u \in Tasks :
        /\ task[t].pc = "refreshing"
        /\ task[u].pc = "slow_lock" /\ task[u].op = "get_token"

(***************************************************************************)
(* C19: no interleaving of get_token() and invalidate() deadlocks: a task  *)
(* never waits for the lock while it holds it, the lock is not held while  *)
(* the on_refresh callback (code that can call back into the token         *)
(* manager) runs, and, every refresh request being answered, every call    *)
(* that is not cancelled comes to its end.                                 *)
(***************************************************************************)
Holds(t) == lock.writer = t \/ t \in lock.readers

Waiting == {"fast_lock", "slow_lock", "inv_lock", "cb_fast_lock"}

NeverNested == \A t \in Tasks : task[t].pc \in Waiting => ~Holds(t)

NotHeldInCallback == \A t \in Tasks : task[t].pc = "callback" => ~Holds(t)

Ended == {"done", "cancelled", "panicked"}

EveryCallEnds == \A t \in Tasks : <>(task[t].pc \in Ended)

C19_NoDeadlock ==
    /\ []NeverNested
    /\ []NotHeldInCallback
    /\ EveryCallEnds

(***************************************************************************)
(* C20: the token state changes only in a step of the task that holds the  *)
(* lock exclusively: when get_token() stores a successful refresh          *)
(* response, or when invalidate() sets expires_at to 0.  A get_token()     *)
(* that fails (the request fails, the body does not parse, the status is   *)
(* not a success) or a call cancelled at a suspension point leaves the     *)
(* three fields as they were.  The two tokens always come from the same    *)
(* refresh response, and expires_at from that response too unless          *)
(* invalidate() has set it to 0.                                           *)
(***************************************************************************)
StoresResponse(t) ==
    /\ task[t].pc = "refreshing" /\ lock.writer = t
    /\ task'[t].pc = "callback" \/ (task'[t].pc = "done" /\ task'[t].ret.tag = "Ok")

WritesAreExclusive ==
    state' # state => \E t \in Tasks : StoresResponse(t) \/ Invalidate(t)

Failed(rec) == rec.pc = "panicked" \/ (rec.pc = "done" /\ rec.ret.tag = "Err")

FailureKeepsState ==
    \A t \in Tasks :
        (task[t].pc # task'[t].pc /\ task[t].op = "get_token"
            /\ (Failed(task'[t]) \/ task'[t].pc = "cancelled")) => state' = state

FromOneResponse ==
    /\ state.access_token = issued.token
    /\ state.refresh_token = issued.token
    /\ state.expires_at \in {issued.expires_at, 0}

C20_StateWrites ==
    /\ [][WritesAreExclusive]_vars
    /\ [][FailureKeepsState]_vars
    /\ []FromOneResponse

(***************************************************************************)
(* C21: an attempt a that fails at a network I/O step (the request cannot  *)
(* be sent: timeout or connection failure; the response body cannot be     *)
(* read) is followed by a backoff sleep and attempt a + 1 when             *)
(* a < max_retries, and is returned to the caller as that failure only     *)
(* when a = max_retries.                                                   *)
(***************************************************************************)
SendFails(o) ==
    o.tag = "Err" /\ o.error.kind = "Http" /\ (o.error.is_timeout \/ o.error.is_connect)

\* the attempt reads the body (every error response; every response of
\* execute_raw) and the read fails
BodyReadFails(o) ==
    /\ o.tag = "Ok" /\ ~o.body_ok
    /\ o.status >= 400 \/ mode = "raw"
    /\ ~(o.status >= 400 /\ parse_retry_after(o.retry_after).panic)

TransportRetried(o) ==
    /\ retried <=> attempt < retry_policy.max_retries
    /\ ~retried => returned.tag = "Err" /\ returned.error.kind = "Http"

C21_TransportRetried ==
    (pc \in {"sleeping", "done"} /\ (SendFails(result) \/ BodyReadFails(result)))
        => TransportRetried(result)

(***************************************************************************)
(* C22: an attempt that ends in an error of a non-retryable kind - the     *)
(* chain returns a Serialization, StreamError or OAuth error or an         *)
(* Error::Api with a non-retryable status, or the response read by the     *)
(* executor has a non-retryable API status - ends the call on that attempt *)
(* with that error: no sleep and no further attempt follow, however many   *)
(* retries remain.                                                         *)
(***************************************************************************)
NonRetryableError(o) ==
    /\ o.tag = "Err"
    /\ \/ o.error.kind \in {"Serialization", "StreamError", "OAuth"}
       \/ o.error.kind = "Api" /\ ~is_retryable_status(o.error.status)

\* the executor has read the response (headers and body) and its status is
\* not retryable
NonRetryableResponse(o) ==
    /\ o.tag = "Ok" /\ o.status >= 400 /\ ~Retryable(o)
    /\ ~parse_retry_after(o.retry_after).panic /\ o.body_ok

EndsWith(o) ==
    /\ pc = "done" /\ ~retried
    /\ returned.tag = "Err"
    /\ returned.error = IF o.tag = "Err" THEN o.error ELSE ApiError(o.status)

C22_NonRetryableEnds ==
    (pc \in {"sleeping", "done"}
        /\ (NonRetryableError(result) \/ NonRetryableResponse(result)))
        => EndsWith(result)

\* an OAuth error on the first attempt ends a call that had every retry left
C22_Witness ==
    /\ pc = "done" /\ retry_policy.max_retries = MaxRetriesBound
    /\ result = [tag |-> "Err", error |-> OtherError("OAuth")]
    /\ returned = result /\ started = 1 /\ sleeps = 0

(***************************************************************************)
(* C23: execute_raw and execute_streaming return a success value only when *)
(* the status of the last response is 2xx; a response with any other       *)
(* status leads to a retry or to Error::Api with that status and the       *)
(* parsed error body or, when the body is not of the shape                 *)
(* {error: {type, message}}, the body {"unknown_error", raw body text}.    *)
(***************************************************************************)
Is2xx(status) == status >= 200 /\ status <= 299

\* the error body the claim gives a response body
StatedErrorBody(body) ==
    IF body.json # None THEN body.json[1]
    ELSE [error_type |-> "unknown_error", message |-> body.bytes]

SuccessOnly2xx ==
    (pc = "done" /\ returned.tag = "Ok") => Is2xx(result.status)

Non2xxIsApiError ==
    (pc \in {"sleeping", "done"} /\ result.tag = "Ok" /\ ~Is2xx(result.status)) =>
        \/ pc = "sleeping"
        \/ /\ returned.tag = "Err"
           /\ returned.error = ApiError(result.status)
           /\ returned.body = StatedErrorBody(result.body)

C23_SuccessIs2xx == SuccessOnly2xx /\ Non2xxIsApiError

(***************************************************************************)
(* C26: the attempts of one call are strictly sequential.  Attempt n+1     *)
(* starts only after the outcome of attempt n was classified as retryable  *)
(* and the backoff sleep after it is over; no two attempts are in flight   *)
(* at once; a sleep happens only between two attempts, never after the     *)
(* last one, so a call that made k attempts slept k - 1 times.             *)
(***************************************************************************)
ClassifiedRetryable ==
    /\ retried
    /\ IF result.tag = "Ok"
       THEN result.status >= 400 /\ Retryable(result)
       ELSE is_retryable(result.error)

NextAttemptAfterSleep ==
    (started' = started + 1 /\ started >= 1) =>
        /\ pc = "loop" /\ pc' = "in_flight"
        /\ ClassifiedRetryable
        /\ sleeps = started

SleepFollowsAttempt ==
    sleeps' # sleeps => (pc = "in_flight" /\ pc' = "sleeping" /\ sleeps' = sleeps + 1)

OneAttemptAtATime ==
    /\ pc = "in_flight" => (started = attempt + 1 /\ sleeps = attempt)
    /\ pc # "in_flight" => started \in {attempt, attempt + 1}

SleepsOnlyBetweenAttempts ==
    /\ pc = "sleeping" =>
           /\ sleeps = started
           /\ attempt + 1 \in LoopRange(retry_policy.max_retries)
           /\ callEnv.build_ok
    /\ (pc = "done" /\ started >= 1) => sleeps = started - 1
    /\ pc # "unreachable"

C26_AttemptsSequential ==
    /\ [][NextAttemptAfterSleep /\ SleepFollowsAttempt]_vars
    /\ [](OneAttemptAtATime /\ SleepsOnlyBetweenAttempts)

C26_Witness == pc = "done" /\ started = 3 /\ sleeps = 2 /\ returned.tag = "Ok"

(***************************************************************************)
(* C28: every attempt hands the chain a request rebuilt from the caller's  *)
(* inputs: same method, url, default and extra headers and serialized      *)
(* body; what a middleware changed in the request of an earlier attempt is *)
(* never visible to a later attempt.                                       *)
(***************************************************************************)
\* the request the caller's inputs describe
CallerInputsRequest ==
    [method |-> "POST", url |-> "base/v1/messages",
     headers |-> [h \in {"x-api-key", "anthropic-beta"} |->
                    IF h = "anthropic-beta" /\ callEnv.extra_headers # None
                    THEN "extra" ELSE "default"],
     body |-> [stream |-> mode = "streaming"]]

C28_RequestRebuilt ==
    pc = "in_flight" => attemptReq = CallerInputsRequest

C28_Witness ==
    /\ pc = "in_flight" /\ started = 3
    /\ callEnv.extra_headers # None
    /\ executed # NoValue /\ executed # CallerInputsRequest
    /\ attemptReq = CallerInputsRequest

(***************************************************************************)
(* C29: with the OAuth middleware installed, one call invokes the terminal *)
(* handler at most 2 * (max_retries + 1) times and invalidates the token   *)
(* at most max_retries + 1 times.  The replay after a 401 happens at most  *)
(* once per attempt and does not use up the retry budget: a call with      *)
(* max_retries = 0 can still send two requests.                            *)
(***************************************************************************)
\* handler calls and invalidations of the call so far
HandlerCalls ==
    oauthTotals.handler + (IF pc = "in_flight" THEN Len(task[ChainTask].sent) ELSE 0)

Invalidations ==
    oauthTotals.invalidations + (IF pc = "in_flight" THEN task[ChainTask].invalidations ELSE 0)

CallBudget ==
    /\ HandlerCalls <= 2 * (retry_policy.max_retries + 1)
    /\ Invalidations <= retry_policy.max_retries + 1

ReplayOncePerAttempt ==
    /\ Len(task[ChainTask].sent) <= 2
    /\ task[ChainTask].invalidations <= 1
    /\ HandlerCalls <= 2 * started
    /\ Invalidations <= started

ReplayOutsideBudget ==
    Len(task'[ChainTask].sent) = Len(task[ChainTask].sent) + 1 =>
        (attempt' = attempt /\ started' = started /\ sleeps' = sleeps)

C29_CallBudget ==
    [][ReplayOutsideBudget]_vars /\ [](CallBudget /\ ReplayOncePerAttempt)

C29_Witness ==
    /\ pc = "done" /\ retry_policy.max_retries = 0
    /\ HandlerCalls = 2 /\ Invalidations = 1 /\ returned.tag = "Ok"

C29_WitnessFull ==
    /\ pc = "done" /\ retry_policy.max_retries = 1
    /\ HandlerCalls = 4 /\ Invalidations = 2

(***************************************************************************)
(* C27: when k >= 2 requests pass one OAuthMiddleware at the same time,    *)
(* all sent with the same access token and all answered with 401, at most  *)
(* one refresh request is made in total; a request never invalidates a     *)
(* token that a refresh completed after its 401 has stored; every replay   *)
(* carries the one refreshed token.                                        *)
(***************************************************************************)
SentWith(t, i) == task[t].sent[i].headers.authorization[1]

\* the requests were all sent with the same access token
SameTokenSent ==
    \A t \in RequestTasks :
        Len(task[t].sent) >= 1 /\ SentWith(t, 1) = SentWith(1, 1)

AllUnauthorized ==
    /\ SameTokenSent
    /\ \A t \in RequestTasks :
          Len(task[t].responses) >= 1 /\ task[t].responses[1] = Ok(401)

OneRefreshForAll == AllUnauthorized => refresh_calls <= 1

InvalidatesOnlyFailedToken ==
    SameTokenSent =>
        \A t \in RequestTasks :
            task'[t].invalidations = task[t].invalidations + 1 =>
                state.access_token = SentWith(t, 1)

ReplaysCarryRefreshedToken ==
    SameTokenSent =>
        \A t, u \in RequestTasks :
            (Len(task[t].sent) = 2 /\ Len(task[u].sent) = 2) =>
                /\ SentWith(t, 2) = SentWith(u, 2)
                /\ SentWith(t, 2) # SentWith(t, 1)

C27_SingleRefreshAfter401 ==
    [][InvalidatesOnlyFailedToken]_vars /\ [](OneRefreshForAll /\ ReplaysCarryRefreshedToken)

(***************************************************************************)
(* C24: for a POST request with a JSON-object body whose path ends in      *)
(* /messages (for Bedrock also /complete), the request the Bedrock or      *)
(* Vertex middleware forwards has no model member, a path that embeds the  *)
(* model of the original body, and the streaming suffix iff the stream     *)
(* flag of the body is true; an anthropic_version of the body is forwarded *)
(* unchanged and an absent one is filled with the default; a request with  *)
(* another method or path keeps its path and its model member.             *)
(***************************************************************************)
Forwarded == handlerSaw[1]

ObjectBody(req) == req.body # None /\ req.body[1].kind = "object"

Rewritable ==
    /\ request.method = "POST" /\ ObjectBody(request)
    /\ \/ ends_with(request.path, <<"messages">>)
       \/ middlewares[1] = "Bedrock" /\ ends_with(request.path, <<"complete">>)

StreamingSuffix == IF middlewares[1] = "Bedrock" THEN "invoke-with-response-stream"
                   ELSE "streamRawPredict"

PlainSuffix == IF middlewares[1] = "Bedrock" THEN "invoke" ELSE "rawPredict"

DefaultVersion == IF middlewares[1] = "Bedrock" THEN "bedrock-2023-05-31"
                  ELSE "vertex-2023-10-16"

StreamFlag ==
    /\ "stream" \in DOMAIN request.body[1].members
    /\ request.body[1].members["stream"] = JBool(TRUE)

\* the path has the model as one of its segments, in the encoding of a URL
Embeds(path, model) ==
    \E j \in DOMAIN path : path[j] = (IF model = "m 1" THEN "m%201" ELSE model)

RewrittenAsStated ==
    LET orig == request.body[1].members
        fwd == Forwarded.body[1].members
    IN  /\ "model" \notin DOMAIN fwd
        /\ ("model" \in DOMAIN orig /\ orig["model"][1] = "string") =>
               Embeds(Forwarded.path, orig["model"][2])
        /\ Forwarded.path[Len(Forwarded.path)] =
               (IF StreamFlag THEN StreamingSuffix ELSE PlainSuffix)

VersionAsStated ==
    LET orig == request.body[1].members
        fwd == Forwarded.body[1].members
    IN  /\ "anthropic_version" \in DOMAIN fwd
        /\ fwd["anthropic_version"] =
               (IF "anthropic_version" \in DOMAIN orig THEN orig["anthropic_version"]
                ELSE JStr(DefaultVersion))

ModelKept ==
    ObjectBody(request) =>
        \A k \in {"model"} \cap DOMAIN request.body[1].members :
            /\ k \in DOMAIN Forwarded.body[1].members
            /\ Forwarded.body[1].members[k] = request.body[1].members[k]

C24_RewriteForwarded ==
    Len(handlerSaw) >= 1 =>
        /\ Rewritable => RewrittenAsStated
        /\ ObjectBody(request) => VersionAsStated
        /\ ~Rewritable => (Forwarded.path = request.path /\ ModelKept)

\* POST .../messages/count_tokens through the Vertex middleware
VertexCountTokens ==
    /\ middlewares[1] = "Vertex" /\ request.method = "POST" /\ ObjectBody(request)
    /\ ends_with(request.path, <<"messages", "count_tokens">>)

CountTokensPath ==
    <<"/", "v1", "/", "projects", "/", VertexProject, "/", "locations", "/", VertexRegion,
      "/", "publishers", "/", "anthropic", "/", "models", "/", "count-tokens", ":",
      "rawPredict">>

\* a model member that is no string leaves an empty segment in the path
EmptyModelSegment ==
    LET orig == request.body[1].members
    IN  ("model" \notin DOMAIN orig \/ orig["model"][1] # "string") =>
            Forwarded.path[Len(Forwarded.path) - 2] = ""

C24_RewriteForwardedAmended ==
    Len(handlerSaw) >= 1 =>
        /\ Rewritable => (RewrittenAsStated /\ EmptyModelSegment)
        /\ ObjectBody(request) => VersionAsStated
        /\ ~Rewritable =>
              /\ ModelKept
              /\ Forwarded.path = (IF VertexCountTokens THEN CountTokensPath ELSE request.path)

C24_Witness ==
    /\ Len(handlerSaw) = 1 /\ middlewares[1] = "Vertex" /\ Rewritable /\ StreamFlag
    /\ "anthropic_version" \in DOMAIN request.body[1].members
    /\ "model" \in DOMAIN request.body[1].members
    /\ request.body[1].members["model"] = JStr("m1")
    /\ Forwarded.path[Len(Forwarded.path)] = "streamRawPredict"

(***************************************************************************)
(* C25: every middleware of the crate (OAuthMiddleware, BedrockMiddleware, *)
(* VertexMiddleware) invokes its continuation exactly once on every        *)
(* execution of handle, whatever the downstream response, unless it        *)
(* returns an error before invoking it: never zero times when it returns   *)
(* without such an error, never more than once, never after it returned.   *)
(***************************************************************************)
HandleTasks == {t \in Tasks : task[t].op = "handle"}

NextAtMostOnce == \A t \in HandleTasks : Len(task[t].sent) <= 1

NextUnlessError ==
    \A t \in HandleTasks :
        (task[t].pc = "done" /\ Len(task[t].sent) = 0) => task[t].ret.tag = "Err"

NoNextAfterReturn ==
    \A t \in HandleTasks : task[t].pc = "done" => task'[t].sent = task[t].sent

C25_NextExactlyOnce ==
    [][NoNextAfterReturn]_vars /\ [](NextAtMostOnce /\ NextUnlessError)

\* the same for the Bedrock and Vertex middlewares
CloudNextExactlyOnce ==
    /\ Len(handlerSaw) <= 1
    /\ (chainPc = "done" /\ Len(handlerSaw) = 0) => response.tag = "Err"
    /\ (chainPc = "done" /\ Len(handlerSaw) = 1) => stack = <<>>

(***************************************************************************)
(* C30: the input installed into a tool-use block at ContentBlockStop(i)   *)
(* is built from exactly the partial-JSON deltas delivered for index i     *)
(* since the most recent ContentBlockStart(i).  A buffer exists for index  *)
(* i only while a tool-use block started at i is open: it is created only  *)
(* by a delta applied to a tool-use block, removed at ContentBlockStop(i), *)
(* and does not survive a ContentBlockStart(i) that replaces the block.    *)
(***************************************************************************)
\* the step is ContentBlockStop(i) installing an input
Installs(item) ==
    /\ item.tag = "Ok" /\ item.event.type = "content_block_stop"
    /\ AccEvent(item)
    /\ item.event.index \in DOMAIN partial_json_bufs
    /\ item.event.index < Len(content_blocks)
    /\ content_blocks[item.event.index + 1].kind = "tool_use"

\* no partial JSON from before the latest ContentBlockStart is installed
InstalledSinceStart ==
    \A item \in StreamItems :
        Installs(item) => item.event.index \notin accHist.stale

\* a buffer belongs to a tool-use block
BufferOnlyWhileOpen ==
    \A i \in DOMAIN partial_json_bufs :
        i < Len(content_blocks) /\ content_blocks[i + 1].kind = "tool_use"

BufferCreatedByToolDelta ==
    DOMAIN partial_json_bufs' # DOMAIN partial_json_bufs =>
        \A item \in StreamItems :
            (item.tag = "Ok" /\ item.event.type # "error" /\ AccEvent(item)) =>
                \A i \in DOMAIN partial_json_bufs' \ DOMAIN partial_json_bufs :
                    /\ IsJsonDelta(item.event) /\ item.event.index = i
                    /\ i < Len(content_blocks) /\ content_blocks[i + 1].kind = "tool_use"

BufferRemovedAtStop ==
    \A item \in StreamItems :
        (item.tag = "Ok" /\ item.event.type = "content_block_stop" /\ AccEvent(item)) =>
            item.event.index \notin DOMAIN partial_json_bufs'

C30_InputFromOwnDeltas ==
    /\ [][InstalledSinceStart /\ BufferCreatedByToolDelta /\ BufferRemovedAtStop]_vars
    /\ []BufferOnlyWhileOpen

InstalledSinceStop ==
    \A item \in StreamItems :
        Installs(item) =>
            /\ item.event.index \in DOMAIN accHist.since_stop
            /\ content_blocks'[item.event.index + 1].input =
                   InputOf(accHist.since_stop[item.event.index])

\* a buffer is removed by ContentBlockStop of its index only
BufferKeptUntilStop ==
    DOMAIN partial_json_bufs' # DOMAIN partial_json_bufs =>
        \A item \in StreamItems :
            (item.tag = "Ok" /\ item.event.type # "error" /\ AccEvent(item)) =>
                \A i \in DOMAIN partial_json_bufs \ DOMAIN partial_json_bufs' :
                    item.event.type = "content_block_stop" /\ item.event.index = i

BufferIsSinceStop == partial_json_bufs = accHist.since_stop

C30_InputFromDeltasSinceStop ==
    /\ [][/\ InstalledSinceStop /\ BufferCreatedByToolDelta
          /\ BufferRemovedAtStop /\ BufferKeptUntilStop]_vars
    /\ []BufferIsSinceStop

\* a tool-use block replaced a tool-use block with buffered partial JSON, and
\* the stop installed an input
C30_Witness ==
    /\ accPc = "reading" /\ Len(content_blocks) >= 1
    /\ content_blocks[1].kind = "tool_use"
    /\ content_blocks[1].input = InputOf(S_loc)
    /\ 0 \in accHist.installed_stale
    /\ 0 \notin DOMAIN partial_json_bufs

====
